---------------------------- MODULE Spec2Model ----------------------------
(***************************************************************************)
(* Model of the pedestrian-flow SimulationEngine of CleanFlow              *)
(* (src/src/pages/Editor.tsx, lines 524-832), and of the edit history and  *)
(* the assistant chat of its map editor                                    *)
(* (src/src/components/MapEditor.tsx).                                     *)
(*                                                                         *)
(* Conventions.                                                            *)
(*  - A JavaScript array is a TLA+ sequence; the JavaScript element a[i]   *)
(*    is a[i+1].  Rows and columns keep the 0-based numbering of the code. *)
(*  - World coordinates are integers; gridSize is drawn from even numbers  *)
(*    (or 0) so that the cell centre (col + 0.5) * gridSize is an integer. *)
(*  - A dynamicField value is an exact rational <<num, den>>, den > 0, in  *)
(*    lowest terms.                                                        *)
(*  - The JavaScript value Infinity in staticField is the number Infinity  *)
(*    defined below, which no hop count can equal.                         *)
(*  - distanceTraveled is the sequence of the squared lengths of the moves *)
(*    in the order they were added; the number it denotes is the sum of    *)
(*    their square roots, 0 for the empty sequence.                        *)
(***************************************************************************)
EXTENDS Integers, Sequences, FiniteSets, TLC

VARIABLES
    args,           \* the arguments given to the constructor
    status,         \* "ok": the constructor returned; "failed": it threw
    params,         \* SimulationEngine.params
    nodes,          \* SimulationEngine.nodes
    obstacleMap,    \* SimulationEngine.obstacleMap
    gridCols,       \* SimulationEngine.gridCols
    gridRows,       \* SimulationEngine.gridRows
    staticField,    \* SimulationEngine.staticField
    dynamicField,   \* SimulationEngine.dynamicField
    congestionMap,  \* SimulationEngine.congestionMap
    agents,         \* SimulationEngine.agents
    stepCount,      \* SimulationEngine.stepCount
    op,             \* the last call made on the engine
    threw,          \* whether that call threw
    seen,           \* per agent, the dynamicField its last selectNextCell read
    calls,          \* step() calls made since construction or the last reset()
    ret,            \* the value returned by the last getter call
    editor,         \* MapEditor: the state of the drawing (useState values)
    chat            \* MapEditor: the state of the assistant chat

vars == <<args, status, params, nodes, obstacleMap, gridCols, gridRows,
          staticField, dynamicField, congestionMap, agents, stepCount,
          op, threw, seen, calls, ret, editor, chat>>

uiVars == <<editor, chat>>

simVars == <<args, status, params, nodes, obstacleMap, gridCols, gridRows,
             staticField, dynamicField, congestionMap, agents, stepCount,
             op, threw, seen, calls, ret>>

engineVars == <<params, nodes, obstacleMap, gridCols, gridRows, staticField,
                dynamicField, congestionMap, agents, stepCount>>

\* null
Null == <<"null">>

\* The state of MapEditor after the first render: the useState initial
\* values.  now stands for Date.now(), from which the ids are made.
EditorInitial ==
    [tool |-> "select", nodes |-> <<>>, paths |-> <<>>,
     selectedNode |-> Null, selectedPath |-> Null, draggingNode |-> Null,
     drawingPath |-> <<>>,
     history |-> <<[nodes |-> <<>>, paths |-> <<>>]>>, historyIndex |-> 0,
     now |-> 0]

\* report, chatMessages, chatInput and isAssistantThinking are useState
\* values, assistantTimer and pendingAssistant the two refs
\* (assistantTimerRef.current, pendingAssistantRef.current); generated
\* counts the reports generated, asked the questions submitted.
ChatInitial ==
    [report |-> Null, isGeneratingReport |-> FALSE,
     chatMessages |-> <<>>, chatInput |-> <<>>,
     isAssistantThinking |-> FALSE, assistantTimer |-> Null,
     pendingAssistant |-> Null]

-----------------------------------------------------------------------------
(* Bounds of the model *)

MaxSteps == 2

MaxAgents == 2

MaxNodes == 2

\* the user messages of one chat
MaxQuestions == 2

\* the characters of a chat input
MaxInput == 2

\* the changes made to a drawing: editor.now, the clock read by Date.now(),
\* advances with every one of them
MaxEdits == 3

-----------------------------------------------------------------------------
(* Exact rational arithmetic for the dynamic field *)

Abs(n) == IF n < 0 THEN 0 - n ELSE n

RECURSIVE Gcd(_, _)
Gcd(a, b) == IF b = 0 THEN a ELSE Gcd(b, a % b)

Rat(n, d) ==
    LET s == IF d < 0 THEN 0 - 1 ELSE 1
        g == Gcd(Abs(n), Abs(d))
    IN  <<(s * n) \div g, (s * d) \div g>>

RZero == <<0, 1>>

ROne == <<1, 1>>

RAdd(a, b) == Rat(a[1] * b[2] + b[1] * a[2], a[2] * b[2])

RMul(a, b) == Rat(a[1] * b[1], a[2] * b[2])

RDiv(a, b) == Rat(a[1] * b[2], a[2] * b[1])

RLess(a, b) == a[1] * b[2] < b[1] * a[2]

RLeq(a, b) == a[1] * b[2] <= b[1] * a[2]

-----------------------------------------------------------------------------
(* JavaScript numbers *)

Infinity == 0 - 1

\* Math.ceil(a / b) for integers a, b with b # 0
CeilDiv(a, b) ==
    LET n == IF b < 0 THEN 0 - a ELSE a
        d == Abs(b)
    IN  0 - ((0 - n) \div d)

\* Math.floor(a / b) for integers a, b with b # 0
FloorDiv(a, b) ==
    LET n == IF b < 0 THEN 0 - a ELSE a
        d == Abs(b)
    IN  n \div d

\* Array(Math.ceil(extent / gridSize)) throws a RangeError: the length is
\* Infinity, -Infinity or NaN when gridSize is 0, or a negative integer
ArrayThrows(extent, gridSize) ==
    IF gridSize = 0 THEN TRUE ELSE CeilDiv(extent, gridSize) < 0

-----------------------------------------------------------------------------
(* Grids *)

Grid(rows, cols, v) == [r \in 1..rows |-> [c \in 1..cols |-> v]]

Get(g, row, col) == g[row + 1][col + 1]

Put(g, row, col, v) == [g EXCEPT ![row + 1][col + 1] = v]

InGrid(rows, cols, row, col) ==
    row >= 0 /\ row < rows /\ col >= 0 /\ col < cols

Cells(rows, cols) == (0..(rows - 1)) \X (0..(cols - 1))

worldToGrid(p, x, y) ==
    [col |-> FloorDiv(x, p.gridSize), row |-> FloorDiv(y, p.gridSize)]

gridToWorld(p, row, col) ==
    [x |-> ((2 * col + 1) * p.gridSize) \div 2,
     y |-> ((2 * row + 1) * p.gridSize) \div 2]

Deltas == <<(0 - 1), 0, 1>>

\* a four-neighbour variant: the diagonal cells are left out
getNeighborsOrthogonal(rows, cols, row, col) ==
    LET all == [k \in 1..9 |->
                  [row |-> row + Deltas[((k - 1) \div 3) + 1],
                   col |-> col + Deltas[((k - 1) % 3) + 1]]]
        keep(n) == /\ (n.row = row) # (n.col = col)
                   /\ InGrid(rows, cols, n.row, n.col)
    IN  SelectSeq(all, keep)

\* Moore neighbourhood in the order of the two nested loops
getNeighbors(rows, cols, row, col) ==
    LET all == [k \in 1..9 |->
                  [row |-> row + Deltas[((k - 1) \div 3) + 1],
                   col |-> col + Deltas[((k - 1) % 3) + 1]]]
        keep(n) == /\ ~(n.row = row /\ n.col = col)
                   /\ InGrid(rows, cols, n.row, n.col)
    IN  SelectSeq(all, keep)

\* this.obstacleMap[row] is undefined: reading [col] of it throws a TypeError
ObstacleReadThrows(om, row) == row + 1 > Len(om)

\* this.obstacleMap[row][col] as a condition; undefined is falsy
ObstacleAt(om, row, col) ==
    IF col + 1 > Len(om[row + 1]) THEN FALSE ELSE om[row + 1][col + 1]

-----------------------------------------------------------------------------
(* computeStaticField *)

\* a variant that seeds the first in-grid node only
RECURSIVE SeedNodesFirstOnly(_, _, _, _, _)
SeedNodesFirstOnly(p, ns, rows, cols, st) ==
    IF ns = <<>> \/ st.queue # <<>> THEN st
    ELSE LET g == worldToGrid(p, Head(ns).x, Head(ns).y)
             nx == IF InGrid(rows, cols, g.row, g.col)
                   THEN [field   |-> Put(st.field, g.row, g.col, 0),
                         queue   |-> Append(st.queue,
                                       [row |-> g.row, col |-> g.col, dist |-> 0]),
                         visited |-> st.visited \cup {<<g.row, g.col>>},
                         threw   |-> FALSE]
                   ELSE st
         IN  SeedNodesFirstOnly(p, Tail(ns), rows, cols, nx)

\* the nodes.forEach loop that seeds the queue
RECURSIVE SeedNodes(_, _, _, _, _)
SeedNodes(p, ns, rows, cols, st) ==
    IF ns = <<>> THEN st
    ELSE LET g == worldToGrid(p, Head(ns).x, Head(ns).y)
             nx == IF InGrid(rows, cols, g.row, g.col)
                   THEN [field   |-> Put(st.field, g.row, g.col, 0),
                         queue   |-> Append(st.queue,
                                       [row |-> g.row, col |-> g.col, dist |-> 0]),
                         visited |-> st.visited \cup {<<g.row, g.col>>},
                         threw   |-> FALSE]
                   ELSE st
         IN  SeedNodes(p, Tail(ns), rows, cols, nx)

\* the neighbors.forEach callback applied to the neighbours of one cell
RECURSIVE ExpandNeighbors(_, _, _, _)
ExpandNeighbors(om, nbs, dist, st) ==
    IF nbs = <<>> \/ st.threw THEN st
    ELSE LET n == Head(nbs)
             nx == IF <<n.row, n.col>> \in st.visited THEN st
                   ELSE IF ObstacleReadThrows(om, n.row)
                        THEN [st EXCEPT !.threw = TRUE]
                   ELSE IF ObstacleAt(om, n.row, n.col) THEN st
                   ELSE [field   |-> Put(st.field, n.row, n.col, dist + 1),
                         queue   |-> Append(st.queue,
                                       [row |-> n.row, col |-> n.col,
                                        dist |-> dist + 1]),
                         visited |-> st.visited \cup {<<n.row, n.col>>},
                         threw   |-> FALSE]
         IN  ExpandNeighbors(om, Tail(nbs), dist, nx)

\* the while (queue.length > 0) loop
RECURSIVE BfsLoop(_, _, _, _)
BfsLoop(om, rows, cols, st) ==
    IF st.queue = <<>> \/ st.threw THEN st
    ELSE LET current == Head(st.queue)
             popped  == [st EXCEPT !.queue = Tail(st.queue)]
         IN  BfsLoop(om, rows, cols,
                     ExpandNeighbors(om,
                         getNeighbors(rows, cols, current.row, current.col),
                         current.dist, popped))

computeStaticField(p, ns, om, rows, cols, field) ==
    LET seeded == SeedNodes(p, ns, rows, cols,
                      [field |-> field, queue |-> <<>>, visited |-> {},
                       threw |-> FALSE])
        done   == BfsLoop(om, rows, cols, seeded)
    IN  [field |-> done.field, threw |-> done.threw]

-----------------------------------------------------------------------------
(* spawnAgents *)

IsEntry(n) == n.type = "entry-exit"

IsTarget(n) == n.type = "entry-exit" \/ n.type = "bin"

\* a variant that draws the target among all the nodes
spawnAgentsAnyTarget(p, ns) ==
    LET entryNodes  == SelectSeq(ns, IsEntry)
        targetNodes == ns
        count       == IF p.numAgents > 0 THEN p.numAgents ELSE 0
    IN  IF entryNodes = <<>> THEN {<<>>}
        ELSE { [i \in 1..count |->
                  [id               |-> i - 1,
                   x                |-> entryNodes[e[i]].x,
                   y                |-> entryNodes[e[i]].y,
                   targetNodeId     |-> targetNodes[t[i]].id,
                   path             |-> <<>>,
                   distanceTraveled |-> <<>>]] :
                 e \in [1..count -> 1..Len(entryNodes)],
                 t \in [1..count -> 1..Len(targetNodes)] }

\* a variant that falls back on the whole node list when no node is an
\* entry-exit node
spawnAgentsAnyNode(p, ns) ==
    LET entryNodes  == IF SelectSeq(ns, IsEntry) = <<>> THEN ns
                       ELSE SelectSeq(ns, IsEntry)
        targetNodes == IF SelectSeq(ns, IsTarget) = <<>> THEN ns
                       ELSE SelectSeq(ns, IsTarget)
        count       == IF p.numAgents > 0 THEN p.numAgents ELSE 0
    IN  IF entryNodes = <<>> THEN {<<>>}
        ELSE { [i \in 1..count |->
                  [id               |-> i - 1,
                   x                |-> entryNodes[e[i]].x,
                   y                |-> entryNodes[e[i]].y,
                   targetNodeId     |-> targetNodes[t[i]].id,
                   path             |-> <<>>,
                   distanceTraveled |-> <<>>]] :
                 e \in [1..count -> 1..Len(entryNodes)],
                 t \in [1..count -> 1..Len(targetNodes)] }

\* a variant whose loop runs once more (i <= numAgents)
spawnAgentsOneMore(p, ns) ==
    LET entryNodes  == SelectSeq(ns, IsEntry)
        targetNodes == SelectSeq(ns, IsTarget)
        count       == IF p.numAgents >= 0 THEN p.numAgents + 1 ELSE 0
    IN  IF entryNodes = <<>> THEN {<<>>}
        ELSE { [i \in 1..count |->
                  [id               |-> i - 1,
                   x                |-> entryNodes[e[i]].x,
                   y                |-> entryNodes[e[i]].y,
                   targetNodeId     |-> targetNodes[t[i]].id,
                   path             |-> <<>>,
                   distanceTraveled |-> <<>>]] :
                 e \in [1..count -> 1..Len(entryNodes)],
                 t \in [1..count -> 1..Len(targetNodes)] }

\* Every agent list the loop can build: entryNode and targetNode are drawn
\* with Math.random(); with no entry-exit node the draw is undefined and
\* nothing is pushed.
spawnAgents(p, ns) ==
    LET entryNodes  == SelectSeq(ns, IsEntry)
        targetNodes == SelectSeq(ns, IsTarget)
        count       == IF p.numAgents > 0 THEN p.numAgents ELSE 0
    IN  IF entryNodes = <<>> THEN {<<>>}
        ELSE { [i \in 1..count |->
                  [id               |-> i - 1,
                   x                |-> entryNodes[e[i]].x,
                   y                |-> entryNodes[e[i]].y,
                   targetNodeId     |-> targetNodes[t[i]].id,
                   path             |-> <<>>,
                   distanceTraveled |-> <<>>]] :
                 e \in [1..count -> 1..Len(entryNodes)],
                 t \in [1..count -> 1..Len(targetNodes)] }

-----------------------------------------------------------------------------
(* constructor *)

\* The engine a failed constructor leaves behind is never handed to the
\* caller; its fields are shown with the values of the field initializers.
NoEngine(a) ==
    [status |-> "failed", params |-> a.params, nodes |-> a.nodes,
     obstacleMap |-> <<>>, gridCols |-> 0, gridRows |-> 0,
     staticField |-> <<>>, dynamicField |-> <<>>, congestionMap |-> <<>>,
     agents |-> <<>>]

\* Every outcome of new SimulationEngine(a.params, a.nodes, a.obstacles)
Constructor(a) ==
    LET p == a.params
    IN  IF ArrayThrows(p.mapHeight, p.gridSize) THEN {NoEngine(a)}
        ELSE LET rows == CeilDiv(p.mapHeight, p.gridSize)
             IN  IF rows > 0 /\ ArrayThrows(p.mapWidth, p.gridSize)
                 THEN {NoEngine(a)}
                 ELSE LET cols == CeilDiv(p.mapWidth, p.gridSize)
                          om   == IF a.obstacles.given THEN a.obstacles.grid
                                  ELSE Grid(rows, cols, FALSE)
                          sf   == computeStaticField(p, a.nodes, om, rows, cols,
                                      Grid(rows, cols, Infinity))
                      IN  IF sf.threw THEN {NoEngine(a)}
                          ELSE { [status |-> "ok", params |-> p,
                                  nodes |-> a.nodes, obstacleMap |-> om,
                                  gridCols |-> cols, gridRows |-> rows,
                                  staticField |-> sf.field,
                                  dynamicField |-> Grid(rows, cols, RZero),
                                  congestionMap |-> Grid(rows, cols, 0),
                                  agents |-> ag] :
                                 ag \in spawnAgents(p, a.nodes) }

-----------------------------------------------------------------------------
(* calculateMoveProbability and selectNextCell *)

\* The kind of number Math.exp(-w_s * S + w_d * D + eps * U) is.  S is a hop
\* count or Infinity, D and U are finite: the exponent is finite unless S is
\* Infinity, and then it is -Infinity (w_s > 0), Infinity (w_s < 0) or NaN
\* (w_s = 0, since 0 * Infinity is NaN).
calculateMoveProbability(p, sf, row, col) ==
    LET S == Get(sf, row, col)
    IN  IF S # Infinity THEN "positive"
        ELSE IF p.staticWeight > 0 THEN "zero"
        ELSE IF p.staticWeight < 0 THEN "infinite"
        ELSE "nan"

\* The argument of Math.exp for a finite S and randomness 0:
\* -w_s * S + w_d * D.  Math.exp is strictly increasing, so two weights
\* compare as their exponents do.
Exponent(p, S, D) == RAdd(<<(0 - p.staticWeight) * S, 1>>,
                          RMul(<<p.dynamicWeight, 1>>, D))

\* a variant without the obstacle test
CandidatesUnfiltered(om, nbs) == [threw |-> FALSE, cells |-> nbs]

\* The neighbours that pass the obstacle test, in order; reading a missing
\* row of obstacleMap throws.
RECURSIVE Candidates(_, _)
Candidates(om, nbs) ==
    IF nbs = <<>> THEN [threw |-> FALSE, cells |-> <<>>]
    ELSE IF ObstacleReadThrows(om, Head(nbs).row)
         THEN [threw |-> TRUE, cells |-> <<>>]
    ELSE LET rest == Candidates(om, Tail(nbs))
         IN  IF rest.threw THEN rest
             ELSE IF ObstacleAt(om, Head(nbs).row, Head(nbs).col) THEN rest
             ELSE [rest EXCEPT !.cells = <<Head(nbs)>> \o rest.cells]

\* a variant that returns the current cell, not null, when no cell can be
\* drawn
selectNextCellOrStay(p, sf, om, rows, cols, currentRow, currentCol) ==
    LET cand == Candidates(om, getNeighbors(rows, cols, currentRow, currentCol))
        cs   == cand.cells
        kind(i) == calculateMoveProbability(p, sf, cs[i].row, cs[i].col)
        idx  == 1..Len(cs)
        nans == {i \in idx : kind(i) = "nan"}
        infs == {i \in idx : kind(i) = "infinite"}
        poss == {i \in idx : kind(i) = "positive"}
        firstInf == CHOOSE i \in infs : \A j \in infs : i <= j
        picks == IF cs = <<>> THEN {}
                 ELSE IF nans # {} THEN {Len(cs)}
                 ELSE IF infs # {} THEN {firstInf, Len(cs)}
                 ELSE IF poss = {} THEN {}
                 ELSE poss \cup {1}
    IN  [threw  |-> cand.threw,
         isNull |-> FALSE,
         cells  |-> IF cand.threw THEN {}
                    ELSE IF picks = {}
                         THEN {[row |-> currentRow, col |-> currentCol]}
                    ELSE {cs[i] : i \in picks}]

\* Every value selectNextCell can return, "null" included.
\*   totalProb NaN: rand is NaN, no comparison succeeds, the last candidate
\*     is returned.
\*   totalProb Infinity: rand is Infinity (first infinite candidate) or, when
\*     Math.random() is 0, NaN (last candidate).
\*   totalProb 0: null.
\*   otherwise rand lies in [0, totalProb]: every candidate of positive
\*     weight, and the first candidate (rand = 0 <= cumulative).
selectNextCell(p, sf, om, rows, cols, currentRow, currentCol) ==
    LET cand == Candidates(om, getNeighbors(rows, cols, currentRow, currentCol))
        cs   == cand.cells
        kind(i) == calculateMoveProbability(p, sf, cs[i].row, cs[i].col)
        idx  == 1..Len(cs)
        nans == {i \in idx : kind(i) = "nan"}
        infs == {i \in idx : kind(i) = "infinite"}
        poss == {i \in idx : kind(i) = "positive"}
        firstInf == CHOOSE i \in infs : \A j \in infs : i <= j
        picks == IF cs = <<>> THEN {}
                 ELSE IF nans # {} THEN {Len(cs)}
                 ELSE IF infs # {} THEN {firstInf, Len(cs)}
                 ELSE IF poss = {} THEN {}
                 ELSE poss \cup {1}
    IN  [threw  |-> cand.threw,
         isNull |-> ~cand.threw /\ picks = {},
         cells  |-> IF cand.threw THEN {} ELSE {cs[i] : i \in picks}]

-----------------------------------------------------------------------------
(* updateDynamicField *)

RECURSIVE SumNeighbors(_, _, _)
SumNeighbors(field, nbs, rate) ==
    IF nbs = <<>> THEN [sum |-> RZero, count |-> RZero]
    ELSE LET rest == SumNeighbors(field, Tail(nbs), rate)
         IN  [sum   |-> RAdd(RMul(Get(field, Head(nbs).row, Head(nbs).col), rate),
                             rest.sum),
              count |-> RAdd(rate, rest.count)]

\* a variant that multiplies by decayRate - 1, the share that is lost
DecayLost(p, rows, cols, field) ==
    [r \in 1..rows |-> [c \in 1..cols |->
        RMul(field[r][c], RAdd(p.decayRate, <<0 - 1, 1>>))]]

Decay(p, rows, cols, field) ==
    [r \in 1..rows |-> [c \in 1..cols |-> RMul(field[r][c], p.decayRate)]]

\* a variant that writes each new value into the field it reads from, cell
\* after cell in row order; after(k) is the field after k cells
DiffuseInPlace(p, rows, cols, field) ==
    LET RECURSIVE after(_)
        after(k) ==
            IF k <= 0 THEN field
            ELSE LET prev == after(k - 1)
                     r    == (k - 1) \div cols
                     c    == (k - 1) % cols
                     nb   == SumNeighbors(prev, getNeighbors(rows, cols, r, c),
                                          p.diffusionRate)
                 IN  Put(prev, r, c,
                         RDiv(RAdd(Get(prev, r, c), nb.sum),
                              RAdd(ROne, nb.count)))
    IN  after(rows * cols)

Diffuse(p, rows, cols, field) ==
    [r \in 1..rows |-> [c \in 1..cols |->
        LET nb == SumNeighbors(field, getNeighbors(rows, cols, r - 1, c - 1),
                               p.diffusionRate)
        IN  RDiv(RAdd(field[r][c], nb.sum), RAdd(ROne, nb.count))]]

\* a variant that applies the decay twice
updateDynamicFieldTwice(p, rows, cols, field) ==
    LET decayed == Decay(p, rows, cols, Decay(p, rows, cols, field))
    IN  IF RLess(RZero, p.diffusionRate)
        THEN Diffuse(p, rows, cols, decayed)
        ELSE decayed

\* a variant that always smooths, over the neighbours only: the mean of no
\* weight at all is 0 / 0, NaN, written <<0, 0>>
updateDynamicFieldNeighboursOnly(p, rows, cols, field) ==
    LET decayed == Decay(p, rows, cols, field)
    IN  [r \in 1..rows |-> [c \in 1..cols |->
            LET nb == SumNeighbors(decayed, getNeighbors(rows, cols, r - 1, c - 1),
                                   p.diffusionRate)
            IN  IF nb.count = RZero THEN <<0, 0>> ELSE RDiv(nb.sum, nb.count)]]

updateDynamicField(p, rows, cols, field) ==
    LET decayed == Decay(p, rows, cols, field)
    IN  IF RLess(RZero, p.diffusionRate)
        THEN Diffuse(p, rows, cols, decayed)
        ELSE decayed

-----------------------------------------------------------------------------
(* step *)

\* this.nodes.find(n => n.id === id): the index of the first match, 0 if none
FindNode(ns, id) ==
    IF \E i \in 1..Len(ns) : ns[i].id = id
    THEN CHOOSE i \in 1..Len(ns) :
            ns[i].id = id /\ \A j \in 1..(i - 1) : ns[j].id # id
    ELSE 0

\* a variant with the radius of one cell instead of two
ReachedOneCell(p, x, y, node) ==
    /\ p.gridSize > 0
    /\ (x - node.x) * (x - node.x) + (y - node.y) * (y - node.y)
          < p.gridSize * p.gridSize

\* a variant with the threshold gridSize * 3
ReachedThreeCells(p, x, y, node) ==
    /\ p.gridSize > 0
    /\ (x - node.x) * (x - node.x) + (y - node.y) * (y - node.y)
          < 9 * p.gridSize * p.gridSize

\* Math.sqrt(dx^2 + dy^2) < gridSize * 2, decided on the squares
Reached(p, x, y, node) ==
    /\ p.gridSize > 0
    /\ (x - node.x) * (x - node.x) + (y - node.y) * (y - node.y)
          < 4 * p.gridSize * p.gridSize

\* a variant that moves to the corner of the cell (col * gridSize,
\* row * gridSize)
MoveAgentCorner(p, a, cell) ==
    LET newPos == [x |-> cell.col * p.gridSize, y |-> cell.row * p.gridSize]
        dx == newPos.x - a.x
        dy == newPos.y - a.y
    IN  [a EXCEPT !.x = newPos.x, !.y = newPos.y,
                  !.distanceTraveled = Append(@, dx * dx + dy * dy),
                  !.path = Append(@, [x |-> newPos.x, y |-> newPos.y])]

\* a variant that pushes the position the agent leaves
MoveAgentPushOld(p, a, cell) ==
    LET newPos == gridToWorld(p, cell.row, cell.col)
        dx == newPos.x - a.x
        dy == newPos.y - a.y
    IN  [a EXCEPT !.x = newPos.x, !.y = newPos.y,
                  !.distanceTraveled = Append(@, dx * dx + dy * dy),
                  !.path = Append(@, [x |-> a.x, y |-> a.y])]

\* the agent after the move to cell, a result of selectNextCell
MoveAgent(p, a, cell) ==
    LET newPos == gridToWorld(p, cell.row, cell.col)
        dx == newPos.x - a.x
        dy == newPos.y - a.y
    IN  [a EXCEPT !.x = newPos.x, !.y = newPos.y,
                  !.distanceTraveled = Append(@, dx * dx + dy * dy),
                  !.path = Append(@, [x |-> newPos.x, y |-> newPos.y])]

\* a variant that draws the new target among all the other nodes
NewTargetsAnyType(p, ns, a) ==
    LET t == FindNode(ns, a.targetNodeId)
        other(n) == n.id # a.targetNodeId
        newTargets == SelectSeq(ns, other)
    IN  IF t # 0 /\ Reached(p, a.x, a.y, ns[t]) /\ newTargets # <<>>
        THEN {newTargets[k].id : k \in 1..Len(newTargets)}
        ELSE {a.targetNodeId}

\* every targetNodeId the reassignment block can leave in the agent
NewTargets(p, ns, a) ==
    LET t == FindNode(ns, a.targetNodeId)
        other(n) == IsTarget(n) /\ n.id # a.targetNodeId
        newTargets == SelectSeq(ns, other)
    IN  IF t # 0 /\ Reached(p, a.x, a.y, ns[t]) /\ newTargets # <<>>
        THEN {newTargets[k].id : k \in 1..Len(newTargets)}
        ELSE {a.targetNodeId}

\* a variant without the bounds test: reading a row that does not exist
\* throws, writing past the end of a row changes no cell
DepositUnguarded(e, st, g) ==
    IF g.row < 0 \/ g.row >= e.gridRows THEN [st EXCEPT !.threw = TRUE]
    ELSE IF g.col < 0 \/ g.col >= e.gridCols THEN st
    ELSE [st EXCEPT !.dynamicField =
                        Put(@, g.row, g.col, RAdd(Get(@, g.row, g.col), ROne)),
                    !.congestionMap =
                        Put(@, g.row, g.col, Get(@, g.row, g.col) + 1)]

\* a variant that leaves the trail out: only the visit is counted
DepositVisitOnly(e, st, g) ==
    IF InGrid(e.gridRows, e.gridCols, g.row, g.col)
    THEN [st EXCEPT !.congestionMap =
                        Put(@, g.row, g.col, Get(@, g.row, g.col) + 1)]
    ELSE st

\* a variant that takes the visit off the counter (-- for ++)
DepositUncount(e, st, g) ==
    IF InGrid(e.gridRows, e.gridCols, g.row, g.col)
    THEN [st EXCEPT !.dynamicField =
                        Put(@, g.row, g.col, RAdd(Get(@, g.row, g.col), ROne)),
                    !.congestionMap =
                        Put(@, g.row, g.col, Get(@, g.row, g.col) - 1)]
    ELSE st

\* "Increment trail at current position": the guarded += 1 and ++
Deposit(e, st, g) ==
    IF InGrid(e.gridRows, e.gridCols, g.row, g.col)
    THEN [st EXCEPT !.dynamicField =
                        Put(@, g.row, g.col, RAdd(Get(@, g.row, g.col), ROne)),
                    !.congestionMap =
                        Put(@, g.row, g.col, Get(@, g.row, g.col) + 1)]
    ELSE st

\* a variant that draws only among the cells that bring the agent nearer to
\* its target node
StepAgentTowardsTarget(e, i, st) ==
    LET a   == st.agents[i]
        g   == worldToGrid(e.params, a.x, a.y)
        d   == Deposit(e, st, g)
        dep == [d EXCEPT !.seen = Append(@, d.dynamicField)]
        sel == selectNextCell(e.params, e.staticField, e.obstacleMap,
                              e.gridRows, e.gridCols, g.row, g.col)
        t   == FindNode(e.nodes, a.targetNodeId)
        far(x, y) == (x - e.nodes[t].x) * (x - e.nodes[t].x)
                         + (y - e.nodes[t].y) * (y - e.nodes[t].y)
        nearer(c) == LET w == gridToWorld(e.params, c.row, c.col)
                     IN  t # 0 /\ far(w.x, w.y) < far(a.x, a.y)
        towards == {c \in sel.cells : nearer(c)}
        moved == IF sel.isNull \/ towards = {} THEN {a}
                 ELSE {MoveAgent(e.params, a, c) : c \in towards}
    IN  IF sel.threw THEN {[dep EXCEPT !.threw = TRUE]}
        ELSE UNION { { [dep EXCEPT !.agents[i] = [m EXCEPT !.targetNodeId = t2]] :
                         t2 \in NewTargets(e.params, e.nodes, m) } :
                     m \in moved }

\* a variant that runs the reassignment block only for an agent that has
\* moved
StepAgentReassignMovedOnly(e, i, st) ==
    LET a   == st.agents[i]
        g   == worldToGrid(e.params, a.x, a.y)
        d   == Deposit(e, st, g)
        dep == [d EXCEPT !.seen = Append(@, d.dynamicField)]
        sel == selectNextCell(e.params, e.staticField, e.obstacleMap,
                              e.gridRows, e.gridCols, g.row, g.col)
    IN  IF sel.threw THEN {[dep EXCEPT !.threw = TRUE]}
        ELSE IF sel.isNull THEN {dep}
        ELSE UNION { { [dep EXCEPT !.agents[i] = [m EXCEPT !.targetNodeId = t]] :
                         t \in NewTargets(e.params, e.nodes, m) } :
                     m \in {MoveAgent(e.params, a, c) : c \in sel.cells} }

\* the body of agents.forEach for the agent of index i: every state it can
\* leave.  e holds the engine fields the body reads without writing; seen
\* records the dynamicField that selectNextCell is run on.
StepAgent(e, i, st) ==
    LET a   == st.agents[i]
        g   == worldToGrid(e.params, a.x, a.y)
        d   == Deposit(e, st, g)
        dep == [d EXCEPT !.seen = Append(@, d.dynamicField)]
        sel == selectNextCell(e.params, e.staticField, e.obstacleMap,
                              e.gridRows, e.gridCols, g.row, g.col)
        moved == IF sel.isNull THEN {a}
                 ELSE {MoveAgent(e.params, a, c) : c \in sel.cells}
    IN  IF sel.threw THEN {[dep EXCEPT !.threw = TRUE]}
        ELSE UNION { { [dep EXCEPT !.agents[i] = [m EXCEPT !.targetNodeId = t]] :
                         t \in NewTargets(e.params, e.nodes, m) } :
                     m \in moved }

\* a variant that takes the agents that have never moved out of the pool
\* when the loop is over
RECURSIVE AgentsLoopDropStuck(_, _, _)
AgentsLoopDropStuck(e, i, st) ==
    LET hasMoved(a) == a.path # <<>>
    IN  IF i > Len(st.agents) \/ st.threw
        THEN {[st EXCEPT !.agents = SelectSeq(@, hasMoved)]}
        ELSE UNION {AgentsLoopDropStuck(e, i + 1, nx) : nx \in StepAgent(e, i, st)}

\* agents.forEach from the agent of index i on; a throw ends the loop
RECURSIVE AgentsLoop(_, _, _)
AgentsLoop(e, i, st) ==
    IF i > Len(st.agents) \/ st.threw THEN {st}
    ELSE UNION {AgentsLoop(e, i + 1, nx) : nx \in StepAgent(e, i, st)}

Engine ==
    [params |-> params, nodes |-> nodes, obstacleMap |-> obstacleMap,
     gridCols |-> gridCols, gridRows |-> gridRows, staticField |-> staticField]

\* what a call hands back to the caller: nothing, a value, or a reference to
\* an object of the engine
NoRet == [kind |-> "void"]

Value(v) == [kind |-> "value", value |-> v]

Reference(field) == [kind |-> "reference", field |-> field]

\* a variant that counts a step twice
IncrementTwice(n) == n + 2

\* this.stepCount++
Increment(n) == n + 1

step ==
    /\ status = "ok"
    /\ stepCount < MaxSteps
    /\ stepCount' = Increment(stepCount)
    /\ \E out \in AgentsLoop(Engine, 1,
                    [agents |-> agents, dynamicField |-> dynamicField,
                     congestionMap |-> congestionMap, seen |-> <<>>,
                     threw |-> FALSE]) :
          /\ agents' = out.agents
          /\ congestionMap' = out.congestionMap
          /\ dynamicField' = IF out.threw THEN out.dynamicField
                             ELSE updateDynamicField(params, gridRows, gridCols,
                                                     out.dynamicField)
          /\ seen' = out.seen
          /\ threw' = out.threw
    /\ op' = "step"
    /\ calls' = calls + 1
    /\ ret' = NoRet
    /\ UNCHANGED <<args, status, params, nodes, obstacleMap, gridCols,
                   gridRows, staticField>>
    /\ UNCHANGED uiVars

-----------------------------------------------------------------------------
(* reset *)

\* a variant that initialises the fields and leaves out computeStaticField
resetFieldsOnly ==
    /\ status = "ok"
    /\ stepCount' = 0
    /\ dynamicField' = Grid(gridRows, gridCols, RZero)
    /\ congestionMap' = Grid(gridRows, gridCols, 0)
    /\ staticField' = Grid(gridRows, gridCols, Infinity)
    /\ threw' = FALSE
    /\ agents' \in spawnAgents(params, nodes)
    /\ op' = "reset"
    /\ calls' = 0
    /\ ret' = NoRet
    /\ UNCHANGED <<args, status, params, nodes, obstacleMap, gridCols, gridRows,
                   seen>>
    /\ UNCHANGED uiVars

reset ==
    /\ status = "ok"
    /\ stepCount' = 0
    /\ dynamicField' = Grid(gridRows, gridCols, RZero)
    /\ congestionMap' = Grid(gridRows, gridCols, 0)
    /\ LET sf == computeStaticField(params, nodes, obstacleMap, gridRows,
                     gridCols, Grid(gridRows, gridCols, Infinity))
       IN  /\ staticField' = sf.field
           /\ threw' = sf.threw
           /\ agents' \in IF sf.threw THEN {<<>>}
                          ELSE spawnAgents(params, nodes)
    /\ op' = "reset"
    /\ calls' = 0
    /\ ret' = NoRet
    /\ UNCHANGED <<args, status, params, nodes, obstacleMap, gridCols, gridRows,
                   seen>>
    /\ UNCHANGED uiVars

-----------------------------------------------------------------------------
(* getStatistics *)

RECURSIVE Flat(_)
Flat(g) == IF g = <<>> THEN <<>> ELSE Head(g) \o Flat(Tail(g))

RECURSIVE SumSeq(_)
SumSeq(s) == IF s = <<>> THEN 0 ELSE Head(s) + SumSeq(Tail(s))

\* Math.max(...[]) is -Infinity
NegInfinity == 0 - 2

MaxSeq(s) ==
    IF s = <<>> THEN NegInfinity
    ELSE CHOOSE m \in {s[i] : i \in 1..Len(s)} : \A i \in 1..Len(s) : s[i] <= m

\* a variant that cuts the digits after the second off
ToFixed2Truncated(n, d) ==
    IF d = 0 THEN [isNaN |-> TRUE, hundredths |-> 0]
    ELSE [isNaN |-> FALSE, hundredths |-> (100 * n) \div d]

\* x.toFixed(2) of the non-negative rational n / d, in hundredths (the nearest,
\* the larger of two equally near); of 0 / 0 it is the string "NaN"
ToFixed2(n, d) ==
    IF d = 0 THEN [isNaN |-> TRUE, hundredths |-> 0]
    ELSE [isNaN |-> FALSE, hundredths |-> (200 * n + d) \div (2 * d)]

\* avgDistanceTraveled is over sums of square roots: it is kept as the
\* agents' distanceTraveled and their number, NaN (0 / 0) with no agent
getStatistics ==
    [stepCount   |-> stepCount,
     totalAgents |-> Len(agents),
     avgDistanceTraveled |->
         [isNaN |-> agents = <<>>,
          distances |-> [i \in 1..Len(agents) |-> agents[i].distanceTraveled]],
     maxCongestion |-> MaxSeq(Flat(congestionMap)),
     avgCongestion |-> ToFixed2(SumSeq(Flat(congestionMap)), gridRows * gridCols)]

GetStatisticsCall ==
    /\ status = "ok"
    /\ op # "getStatistics"
    /\ ret' = Value(getStatistics)
    /\ op' = "getStatistics"
    /\ threw' = FALSE
    /\ UNCHANGED <<args, status, engineVars, seen, calls>>
    /\ UNCHANGED uiVars

-----------------------------------------------------------------------------
(* The constructor arguments the model is run on *)

MaxObstacles == 2

Half == <<1, 2>>

P(gs, w, h, n, ws, wd, decay, diff) ==
    [gridSize |-> gs, mapWidth |-> w, mapHeight |-> h, numAgents |-> n,
     staticWeight |-> ws, dynamicWeight |-> wd, randomness |-> 0,
     decayRate |-> decay, diffusionRate |-> diff]

N(id, x, y, type) == [id |-> id, x |-> x, y |-> y, type |-> type]

NoObstacles == [given |-> FALSE, grid |-> <<>>]

Obstacles(g) == [given |-> TRUE, grid |-> g]

\* the rows x cols grid whose obstacle cells are those of the set S
ObstacleGrid(rows, cols, S) ==
    [r \in 1..rows |-> [c \in 1..cols |-> <<r - 1, c - 1>> \in S]]

A(p, ns, o) == [params |-> p, nodes |-> ns, obstacles |-> o]

NodeIds == <<"n1", "n2", "n3", "n4">>

\* Static-field family: a 3 x 3 grid (cells of size 2), up to MaxNodes nodes
\* (the centre of a corner cell, the edge of a border cell, a point outside
\* the map), up to MaxObstacles obstacle cells anywhere, node cells included,
\* or one of the walls below; no agent.
GeoParams == P(2, 5, 6, 0, 1, 1, Half, RZero)

GeoPoints == {<<1, 1>>, <<2, 5>>, <<0 - 1, 3>>}

GeoNodeLists ==
    UNION { { [i \in 1..k |-> N(NodeIds[i], f[i][1], f[i][2], "vendor")] :
                f \in [1..k -> GeoPoints] } : k \in 0..MaxNodes }

\* the middle column, the middle row, the enclosure of the corner (0, 0)
Walls ==
    { {<<0, 1>>, <<1, 1>>, <<2, 1>>}, {<<1, 0>>, <<1, 1>>, <<1, 2>>},
      {<<0, 1>>, <<1, 0>>, <<1, 1>>} }

GeoObstacles ==
    {NoObstacles} \cup
    { Obstacles(ObstacleGrid(3, 3, S)) :
        S \in {T \in SUBSET Cells(3, 3) : Cardinality(T) <= MaxObstacles}
               \cup Walls }

GeoArgs == {A(GeoParams, ns, o) : ns \in GeoNodeLists, o \in GeoObstacles}

\* Movement family: a 2 x 3 grid (mapWidth 5 is rounded up to 3 columns),
\* one agent, the layouts below
Entry == "entry-exit"

LayoutEB == <<N("n1", 1, 1, Entry), N("n2", 5, 3, "bin")>>

LayoutE == <<N("n1", 1, 1, Entry)>>

LayoutEE == <<N("n1", 1, 1, Entry), N("n2", 5, 1, Entry)>>

LayoutVE == <<N("n1", 3, 1, "vendor"), N("n2", 0, 3, Entry)>>

LayoutB == <<N("n1", 5, 3, "bin")>>

LayoutOut == <<N("n1", 0 - 1, 1, Entry), N("n2", 3, 3, "bin")>>

LayoutAbove == <<N("n1", 1, 0 - 1, Entry), N("n2", 5, 3, "bin")>>

Layouts ==
    {<<>>, LayoutEB, LayoutE, LayoutEE, LayoutVE, LayoutB, LayoutOut, LayoutAbove}

Rates == {<<d, f>> : d \in {RZero, Half, ROne}, f \in {RZero, Half}}

MoveParams ==
    {P(2, 5, 4, 1, 1, 1, r[1], r[2]) : r \in Rates} \cup
    {P(2, 5, 4, 1, ws, 0, Half, RZero) : ws \in {0, 0 - 1}} \cup
    {P(2, 5, 4, 1, 1, 1, Half, <<2, 1>>)}

MoveObstacles ==
    { Obstacles(ObstacleGrid(2, 3, S)) :
        S \in { {<<0, 1>>, <<1, 1>>}, {<<0, 0>>},
                {<<0, 1>>, <<1, 0>>, <<1, 1>>}, {<<1, 2>>} } }

MoveArgs ==
    {A(p, ns, NoObstacles) : p \in MoveParams, ns \in Layouts} \cup
    {A(p, ns, o) : p \in {P(2, 5, 4, 1, ws, 1, Half, Half) : ws \in {1, 0, 0 - 1}},
                   ns \in {LayoutEB, LayoutE}, o \in MoveObstacles}

\* Crowd family: a 1 x 3 corridor, 2 .. MaxAgents agents that start in the
\* same cell
CrowdArgs ==
    {A(P(2, 6, 2, n, 1, 1, d, Half), ns, NoObstacles) :
        n \in 2..MaxAgents, d \in {RZero, Half, ROne},
        ns \in {<<N("n1", 1, 1, Entry), N("n2", 5, 1, "bin")>>}}

\* Arguments the interface rules out (spec section 6)
BadParams ==
    {P(gs, w, h, 1, 1, 1, Half, RZero) :
        gs \in {0, 0 - 2}, w \in {5, 0 - 5}, h \in {4, 0 - 4}} \cup
    {P(2, w, h, 1, 1, 1, Half, RZero) :
        w \in {0, 0 - 1, 0 - 5, 5}, h \in {0, 0 - 4}} \cup
    {P(2, 5, 4, 1, 1, 1, d, RZero) : d \in {<<0 - 1, 1>>, <<3, 2>>}} \cup
    {P(2, 5, 4, 1, 1, 1, Half, <<0 - 1, 2>>)}

BadArgs == {A(p, LayoutEB, NoObstacles) : p \in BadParams}

\* Obstacle grids that are not 2 x 3
BadObstacles ==
    { Obstacles(g) :
        g \in { <<>>,
                <<<<FALSE, FALSE, FALSE>>>>,
                <<<<FALSE, FALSE>>, <<FALSE, FALSE>>>>,
                <<<<FALSE, TRUE, FALSE, FALSE>>, <<FALSE, FALSE, FALSE, FALSE>>>>,
                <<<<FALSE, FALSE, FALSE>>, <<FALSE, FALSE, FALSE>>,
                  <<FALSE, TRUE, FALSE>>>> } }

MismatchArgs ==
    {A(P(2, 5, 4, 1, 1, 1, Half, RZero), ns, o) :
        ns \in {<<>>, LayoutEB, LayoutOut, <<N("n1", 0 - 1, 1, Entry)>>},
        o \in BadObstacles}

\* Node lists without an entry-exit node, 0 .. MaxAgents + 1 agents asked for
LayoutV == <<N("n1", 3, 1, "vendor")>>

LayoutVB == <<N("n1", 3, 1, "vendor"), N("n2", 5, 3, "bin")>>

NoEntryArgs ==
    {A(P(2, 5, 4, n, 1, 1, Half, Half), ns, o) :
        n \in 0..(MaxAgents + 1), ns \in {<<>>, LayoutB, LayoutV, LayoutVB},
        o \in {NoObstacles, Obstacles(ObstacleGrid(2, 3, {<<0, 1>>}))}}

\* Walls (spec section 8, Scenario C) on the 2 x 3 grid, the bin node in the
\* last column: the middle column cuts off the first column, entry node left
\* of the map; the enclosure of the corner (0, 0), entry node above the map
WallArgs ==
    {A(P(2, 5, 4, 1, ws, 1, Half, RZero),
       <<N("n1", 0 - 1, 1, Entry), N("n2", 5, 3, "bin")>>,
       Obstacles(ObstacleGrid(2, 3, {<<0, 1>>, <<1, 1>>}))) :
        ws \in {1, 0 - 1}} \cup
    {A(P(2, 5, 4, 1, 1, 1, Half, RZero),
       <<N("n1", 3, 0 - 1, Entry), N("n2", 5, 3, "bin")>>,
       Obstacles(ObstacleGrid(2, 3, {<<0, 1>>, <<1, 0>>, <<1, 1>>})))}

\* Agents with no cell to go to: a grid of one cell; an entry node two
\* cells left of the 2 x 3 grid
StuckArgs ==
    {A(P(2, 2, 2, 1, 1, 1, Half, Half), <<N("n1", 1, 1, Entry)>>, NoObstacles),
     A(P(2, 5, 4, 1, 1, 1, Half, Half),
       <<N("n1", 0 - 3, 1, Entry), N("n2", 5, 3, "bin")>>, NoObstacles)}

\* A 2 x 1 grid with a node in each cell and an obstacle grid of one row:
\* computeStaticField marks both cells visited when it seeds them and never
\* reads the missing row, selectNextCell does
SeededRowArgs ==
    {A(P(2, 2, 4, n, 1, 1, d, RZero),
       <<N("n1", 1, 1, Entry), N("n2", 1, 3, "bin")>>,
       Obstacles(<<<<FALSE>>>>)) : n \in 1..MaxAgents, d \in {RZero, Half}}

\* numAgents 0 with an entry-exit node
AgentCountArgs == {A(P(2, 5, 4, 0, 1, 1, Half, RZero), LayoutEB, NoObstacles)}

Args ==
    MoveArgs \cup CrowdArgs \cup BadArgs \cup MismatchArgs \cup NoEntryArgs
        \cup WallArgs \cup StuckArgs \cup SeededRowArgs \cup AgentCountArgs

-----------------------------------------------------------------------------
(* The state machine *)

InitFrom(S) ==
    \E a \in S : \E e \in Constructor(a) :
        /\ args = a
        /\ status = e.status
        /\ params = e.params
        /\ nodes = e.nodes
        /\ obstacleMap = e.obstacleMap
        /\ gridCols = e.gridCols
        /\ gridRows = e.gridRows
        /\ staticField = e.staticField
        /\ dynamicField = e.dynamicField
        /\ congestionMap = e.congestionMap
        /\ agents = e.agents
        /\ stepCount = 0
        /\ op = "new"
        /\ threw = (e.status = "failed")
        /\ seen = <<>>
        /\ calls = 0
        /\ ret = NoRet
        /\ editor = EditorInitial
        /\ chat = ChatInitial

Init == InitFrom(Args)

Next == step \/ reset \/ GetStatisticsCall

Spec == Init /\ [][Next]_vars

\* The getters hand out the engine's own arrays
getAgents == Reference("agents")

getDynamicField == Reference("dynamicField")

getStaticField == Reference("staticField")

getCongestionMap == Reference("congestionMap")

GetterCall ==
    /\ status = "ok"
    /\ \E g \in {<<"getAgents", getAgents>>,
                  <<"getDynamicField", getDynamicField>>,
                  <<"getStaticField", getStaticField>>,
                  <<"getCongestionMap", getCongestionMap>>} :
          /\ op' = g[1]
          /\ ret' = g[2]
    /\ threw' = FALSE
    /\ UNCHANGED <<args, status, engineVars, seen, calls>>
    /\ UNCHANGED uiVars

\* The caller writes into the object it was handed: the first cell of a grid
\* (g[0][0] = -1, or 7 in the static field), or the agent array (a.pop(), a[0].x = -1).  A write to a
\* reference is a write to the engine's object; a write to a copy is not.
CallerWrites ==
    /\ status = "ok"
    /\ ret.kind \in {"reference", "value"}
    /\ op \in {"getAgents", "getDynamicField", "getStaticField",
                "getCongestionMap"}
    /\ gridRows > 0 /\ gridCols > 0
    /\ LET live(f) == ret.kind = "reference" /\ ret.field = f
       IN  /\ dynamicField' = IF live("dynamicField")
                              THEN Put(dynamicField, 0, 0, <<0 - 1, 1>>)
                              ELSE dynamicField
           /\ staticField' = IF live("staticField")
                             THEN Put(staticField, 0, 0, 7)
                             ELSE staticField
           /\ congestionMap' = IF live("congestionMap")
                               THEN Put(congestionMap, 0, 0, 0 - 1)
                               ELSE congestionMap
           /\ agents' \in IF live("agents") /\ agents # <<>>
                          THEN {SubSeq(agents, 1, Len(agents) - 1),
                                [agents EXCEPT ![1].x = 0 - 1]}
                          ELSE {agents}
    /\ op' = "callerWrites"
    /\ ret' = NoRet
    /\ threw' = FALSE
    /\ UNCHANGED <<args, status, params, nodes, obstacleMap, gridCols,
                   gridRows, stepCount, seen, calls>>
    /\ UNCHANGED uiVars

AliasArgs ==
    {A(P(2, 5, 4, 1, 1, 1, Half, Half), ns, NoObstacles) :
        ns \in {LayoutEB}}

InitAlias == InitFrom(AliasArgs)

NextAlias == Next \/ GetterCall \/ CallerWrites

\* the engine and a caller that writes into what the getters return
SpecAlias == InitAlias /\ [][NextAlias]_vars

\* The constructor keeps the objects it is given (this.params = params,
\* this.nodes = nodes, this.obstacleMap = obstacles): the caller's params,
\* nodes and obstacles and the engine's are the same objects, and a write of
\* the caller to one of them (params.decayRate = 1, nodes[0].x = 5,
\* obstacles[0][1] = true) is a write to the engine's.  Without an obstacles
\* argument the engine's obstacleMap is its own.
CallerMutatesArgs ==
    /\ status = "ok"
    /\ \/ /\ params.decayRate # ROne
          /\ params' = [params EXCEPT !.decayRate = ROne]
          /\ UNCHANGED <<nodes, obstacleMap>>
       \/ /\ nodes # <<>> /\ nodes[1].x # 5
          /\ nodes' = [nodes EXCEPT ![1].x = 5]
          /\ UNCHANGED <<params, obstacleMap>>
       \/ /\ args.obstacles.given
          /\ ~Get(obstacleMap, 0, 1)
          /\ obstacleMap' = Put(obstacleMap, 0, 1, TRUE)
          /\ UNCHANGED <<params, nodes>>
    /\ args' = [params |-> params', nodes |-> nodes',
                obstacles |-> IF args.obstacles.given
                              THEN Obstacles(obstacleMap')
                              ELSE args.obstacles]
    /\ op' = "callerMutatesArgs"
    /\ ret' = NoRet
    /\ threw' = FALSE
    /\ UNCHANGED <<status, gridCols, gridRows, staticField, dynamicField,
                   congestionMap, agents, stepCount, seen, calls>>
    /\ UNCHANGED uiVars

SharedArgs ==
    {A(P(2, 5, 4, 1, 1, 1, Half, RZero), LayoutEB, o) :
        o \in {NoObstacles, Obstacles(ObstacleGrid(2, 3, {}))}}

InitShared == InitFrom(SharedArgs)

NextShared == Next \/ CallerMutatesArgs

\* the engine and a caller that writes into the objects it has passed to
\* the constructor
SpecShared == InitShared /\ [][NextShared]_vars

\* numAgents negative (the interface asks for an agent count >= 0, the
\* constructor does not look at it), with an entry-exit node
NegativeCountArgs ==
    {A(P(2, 5, 4, 0 - 1, 1, 1, Half, RZero), LayoutEB, NoObstacles)}

InitCount ==
    InitFrom(AgentCountArgs \cup NegativeCountArgs \cup CrowdArgs
                 \cup NoEntryArgs)

\* the engine over the agent counts: negative, 0 .. MaxAgents + 1, with and
\* without an entry-exit node
SpecCount == InitCount /\ [][Next]_vars

\* Scenario B of spec section 8 on an n x n grid of cells of size 20: an
\* entry-exit node in cell (0, 0), a bin node in cell (n-1, n-1), no
\* obstacle, one agent, staticWeight 1, dynamicWeight 0, randomness 0,
\* decayRate 1, diffusionRate 0.  The scenario is the one of size 10; size 4
\* is the same layout with the bin within MaxSteps steps of the entry.
\* The entry node stands at the corner or at the centre of its cell.
ScenarioB(n, at) ==
    A(P(20, 20 * n, 20 * n, 1, 1, 0, ROne, RZero),
      <<N("n1", at, at, Entry), N("n2", 20 * n - 10, 20 * n - 10, "bin")>>,
      NoObstacles)

ScenarioSizes == {4, 10}

InitB == InitFrom({ScenarioB(n, at) : n \in ScenarioSizes, at \in {0, 10}})

SpecB == InitB /\ [][Next]_vars

\* the engine built on the static-field family
InitStatic == InitFrom(GeoArgs)

SpecStatic == InitStatic /\ [][Next]_vars

-----------------------------------------------------------------------------
(* Hop distance, defined without the queue: the least k such that the cell  *)
(* is reached from the cell of a node in k steps, each step entering a       *)
(* Moore-adjacent cell that is not an obstacle.                              *)

NodeCells ==
    { c \in Cells(gridRows, gridCols) :
        \E i \in 1..Len(nodes) :
            /\ worldToGrid(params, nodes[i].x, nodes[i].y).row = c[1]
            /\ worldToGrid(params, nodes[i].x, nodes[i].y).col = c[2] }

Adjacent(c, d) ==
    /\ c # d
    /\ Abs(c[1] - d[1]) <= 1
    /\ Abs(c[2] - d[2]) <= 1

IsObstacle(c) == ObstacleAt(obstacleMap, c[1], c[2])

\* the cells first reached in k steps, for every k: from the set F of cells
\* first reached in k steps, R the cells reached so far
RECURSIVE Flood(_, _, _)
Flood(F, R, k) ==
    IF F = {} THEN {}
    ELSE LET next == { d \in Cells(gridRows, gridCols) \ R :
                         ~IsObstacle(d) /\ \E c \in F : Adjacent(c, d) }
         IN  {<<c, k>> : c \in F} \cup Flood(next, R \cup next, k + 1)

HopTable == Flood(NodeCells, NodeCells, 0)

\* C1: after construction, every cell that is reached from the cell of some
\* node by 8-connected steps through non-obstacle cells holds the least
\* number of such steps to a node cell in staticField, and every other cell
\* holds Infinity.
C1_StaticFieldIsHopDistance ==
    (status = "ok" /\ op = "new") =>
        LET table == HopTable
            hops(c) == IF \E k \in 0..(gridRows * gridCols) : <<c, k>> \in table
                       THEN CHOOSE k \in 0..(gridRows * gridCols) : <<c, k>> \in table
                       ELSE Infinity
        IN  \A c \in Cells(gridRows, gridCols) :
                Get(staticField, c[1], c[2]) = hops(c)

\* an obstacle forces a detour: some cell lies further from every node in
\* hops than in rows and columns, and an obstacle cell keeps Infinity
C1_Witness ==
    /\ status = "ok" /\ op = "new"
    /\ NodeCells # {}
    /\ \E c \in Cells(gridRows, gridCols) :
          /\ Get(staticField, c[1], c[2]) # Infinity
          /\ \A n \in NodeCells :
                /\ Abs(c[1] - n[1]) < Get(staticField, c[1], c[2])
                /\ Abs(c[2] - n[2]) < Get(staticField, c[1], c[2])
    /\ \E c \in Cells(gridRows, gridCols) :
          Get(staticField, c[1], c[2]) = Infinity

-----------------------------------------------------------------------------
(* Deposits of one step() call *)

\* the field f after one deposit for each of the first n agents of ags whose
\* cell lies in the grid
WithDeposits(f, ags, n) ==
    [r \in 1..gridRows |-> [c \in 1..gridCols |->
        LET here == { j \in 1..n :
                        /\ worldToGrid(params, ags[j].x, ags[j].y).row = r - 1
                        /\ worldToGrid(params, ags[j].x, ags[j].y).col = c - 1 }
        IN  RAdd(f[r][c], <<Cardinality(here), 1>>)]]

CompletedStep == stepCount' = stepCount + 1 /\ ~threw'

\* C2 as stated: in one step() every agent's deposit precedes every agent's
\* selection, so each agent's weights are computed from the dynamic field
\* that holds all the deposits of the step.
C2_AllDepositsBeforeAnySelection ==
    [][CompletedStep =>
          \A i \in 1..Len(agents) :
              seen'[i] = WithDeposits(dynamicField, agents, Len(agents))]_vars

\* C2 amended: the agent of index i selects on the field that holds the
\* deposits of the agents 1 .. i only, its own included; the visit of every
\* agent is counted in congestionMap by the end of the step.
C2_DepositBeforeOwnSelection ==
    [][CompletedStep =>
          /\ Len(seen') = Len(agents)
          /\ \A i \in 1..Len(agents) :
                seen'[i] = WithDeposits(dynamicField, agents, i)
          /\ \A r \in 1..gridRows : \A c \in 1..gridCols :
                <<congestionMap'[r][c], 1>> =
                    RAdd(<<congestionMap[r][c], 1>>,
                         WithDeposits(Grid(gridRows, gridCols, RZero), agents,
                                      Len(agents))[r][c])]_vars

\* two agents stepped from the same cell and the first did not see the
\* deposit of the second
C2_Witness ==
    /\ op = "step" /\ ~threw
    /\ Len(agents) >= 2
    /\ seen[1] # seen[2]

-----------------------------------------------------------------------------
(* Scenario B *)

CellOf(a) == worldToGrid(params, a.x, a.y)

\* strictly less than two cell sizes away, on the squared distance
WithinTwoCells(x, y, n) ==
    (x - n.x) * (x - n.x) + (y - n.y) * (y - n.y)
        < (2 * params.gridSize) * (2 * params.gridSize)

NodeOfId(id) == nodes[CHOOSE i \in 1..Len(nodes) : nodes[i].id = id]

Max(a, b) == IF a >= b THEN a ELSE b

\* hops left from the agent's cell to the cell of the bin node
HopsToBin(a) ==
    LET b == worldToGrid(params, nodes[2].x, nodes[2].y)
    IN  Max(Abs(CellOf(a).row - b.row), Abs(CellOf(a).col - b.col))

\* C3 as stated: in Scenario B (10 x 10) the agent follows a minimal-hop path to the
\* bin deterministically: every step() brings it one hop nearer (the path is
\* the diagonal), it is within 2 * gridSize of the bin after gridRows - 2
\* steps, and from then its target is the entry node.
C3_MinimalHopPathToBin ==
    (status = "ok" /\ agents # <<>> /\ gridRows = 10 /\ gridCols = 10) =>
        /\ stepCount <= gridRows - 2 =>
              HopsToBin(agents[1]) = (gridRows - 1) - stepCount
        /\ stepCount = gridRows - 2 =>
              /\ WithinTwoCells(agents[1].x, agents[1].y, nodes[2])
              /\ stepCount > 0 => agents[1].targetNodeId = "n1"

\* C3 amended: in Scenario B every step() moves the agent to a Moore
\* neighbour of its cell, any of them (every weight exp(-S) is positive and
\* the cell is drawn at random), so it may but need not near the bin; after
\* the move its target becomes the other node if it is within 2 * gridSize
\* of its target, and is kept otherwise.
C3_RandomWalkWithReassignment ==
    [][(CompletedStep /\ agents # <<>>) =>
          LET before == agents[1]
              after  == agents'[1]
              target == NodeOfId(before.targetNodeId)
          IN  /\ Adjacent(<<CellOf(before).row, CellOf(before).col>>,
                          <<CellOf(after).row, CellOf(after).col>>)
              /\ InGrid(gridRows, gridCols, CellOf(after).row, CellOf(after).col)
              /\ IF WithinTwoCells(after.x, after.y, target)
                 THEN after.targetNodeId \in {"n1", "n2"} \ {before.targetNodeId}
                 ELSE after.targetNodeId = before.targetNodeId]_vars

\* the agent went down the diagonal, came within 2 * gridSize of the bin
\* while heading for it, and now heads for the entry node
C3_Witness ==
    /\ op = "step" /\ ~threw /\ agents # <<>>
    /\ Len(agents[1].path) = stepCount
    /\ \A k \in 1..stepCount :
          agents[1].path[k] = [x |-> 20 * k + 10, y |-> 20 * k + 10]
    /\ WithinTwoCells(agents[1].x, agents[1].y, nodes[2])
    /\ ~WithinTwoCells(agents[1].x, agents[1].y, nodes[1])
    /\ agents[1].targetNodeId = "n1"

-----------------------------------------------------------------------------
(* Getters *)

\* C4 as stated: whatever a caller does to the value a getter returned, the
\* engine's agents, dynamicField, staticField and congestionMap stay as they
\* were.
C4_GettersGiveNoWriteAccess ==
    [][op' = "callerWrites" =>
          UNCHANGED <<agents, dynamicField, staticField, congestionMap>>]_vars

-----------------------------------------------------------------------------
(* Construction *)

\* C5 as stated: an obstacle grid whose number of rows or of columns is not
\* that of the computed grid makes the construction fail, whatever the node
\* list.
C5_MismatchedObstaclesFail ==
    LET p == args.params
        g == args.obstacles.grid
    IN  (/\ args.obstacles.given
         /\ p.gridSize > 0
         /\ \/ Len(g) # CeilDiv(p.mapHeight, p.gridSize)
            \/ \E r \in 1..Len(g) : Len(g[r]) # CeilDiv(p.mapWidth, p.gridSize))
        => status = "failed"

\* spec section 6: cell size > 0, map width and height > 0, decay rate in
\* [0, 1], diffusion rate >= 0
InvalidRates(p) ==
    \/ RLess(p.decayRate, RZero)
    \/ RLess(ROne, p.decayRate)
    \/ RLess(p.diffusionRate, RZero)

InvalidParams(p) ==
    \/ p.gridSize <= 0
    \/ p.mapWidth <= 0
    \/ p.mapHeight <= 0
    \/ InvalidRates(p)

\* C6 as stated: parameters with a non-positive gridSize, mapWidth or
\* mapHeight, a decayRate outside [0, 1] or a negative diffusionRate make the
\* construction fail.
C6_InvalidParamsFail ==
    InvalidParams(args.params) => status = "failed"

-----------------------------------------------------------------------------
(* Fields over step and reset *)

\* C7: with decayRate in [0, 1] and diffusionRate >= 0, every cell of
\* dynamicField is >= 0 in every state that step and reset calls lead to.
C7_DynamicFieldNonNegative ==
    (status = "ok" /\ ~InvalidRates(params)) =>
        \A r \in 1..gridRows : \A c \in 1..gridCols :
            RLeq(RZero, dynamicField[r][c])

\* after two steps with decay and diffusion a cell holds a share of a
\* deposit, strictly between 0 and 1
C7_Witness ==
    /\ status = "ok" /\ ~InvalidRates(params)
    /\ op = "step" /\ ~threw /\ stepCount >= 2
    /\ RLess(RZero, params.diffusionRate)
    /\ RLess(params.decayRate, ROne)
    /\ \E r \in 1..gridRows : \E c \in 1..gridCols :
          /\ RLess(RZero, dynamicField[r][c])
          /\ RLess(dynamicField[r][c], ROne)

\* C8: no cell of congestionMap is smaller after a step() call than before
\* it, and a cell that gets smaller does so in a reset() call, which leaves 0.
C8_CongestionNonDecreasing ==
    [][\A r \in 1..gridRows : \A c \in 1..gridCols :
          /\ op' = "step" => congestionMap'[r][c] >= congestionMap[r][c]
          /\ congestionMap'[r][c] < congestionMap[r][c] =>
                (op' = "reset" /\ congestionMap'[r][c] = 0)]_vars

\* after the second step one cell has been visited twice and another once
C8_Witness ==
    /\ op = "step" /\ stepCount >= 2
    /\ \E r \in 1..gridRows : \E c \in 1..gridCols :
          /\ congestionMap[r][c] >= 2
          /\ \E q \in 1..gridRows : \E d \in 1..gridCols :
                <<q, d>> # <<r, c>> /\ congestionMap[q][d] >= 1

\* C9: a reset() call leaves stepCount 0, every cell of dynamicField and of
\* congestionMap 0, at most numAgents agents, each with an empty path, no
\* distance travelled and the position of an entry-exit node, and the
\* obstacle map and the nodes as they were.
C9_ResetRestores ==
    [][op' = "reset" =>
          /\ stepCount' = 0
          /\ \A r \in 1..gridRows : \A c \in 1..gridCols :
                /\ dynamicField'[r][c] = RZero
                /\ congestionMap'[r][c] = 0
          /\ Len(agents') <= params.numAgents
          /\ \A i \in 1..Len(agents') :
                /\ agents'[i].path = <<>>
                /\ agents'[i].distanceTraveled = <<>>
                /\ \E k \in 1..Len(nodes) :
                      /\ IsEntry(nodes[k])
                      /\ agents'[i].x = nodes[k].x
                      /\ agents'[i].y = nodes[k].y
          /\ obstacleMap' = obstacleMap
          /\ nodes' = nodes
          /\ gridRows' = gridRows /\ gridCols' = gridCols]_vars

\* reset() after a step has respawned the whole pool of an engine with
\* obstacles
C9_Witness ==
    /\ op = "reset" /\ status = "ok"
    /\ seen # <<>>
    /\ params.numAgents > 0
    /\ Len(agents) = params.numAgents
    /\ \E r \in 1..Len(obstacleMap) :
          \E c \in 1..Len(obstacleMap[r]) : obstacleMap[r][c]

\* C10: a step() call adds exactly 1 to stepCount, whether it completes or
\* throws, and the stepCount that getStatistics() returns is the number of
\* step() calls since the construction or the last reset().
C10_StepCountCountsSteps ==
    [][/\ op' = "step" => stepCount' = stepCount + 1
       /\ op' = "getStatistics" => ret'.value.stepCount = calls']_vars

\* getStatistics() reports the two steps made
C10_Witness ==
    /\ op = "getStatistics"
    /\ ret.kind = "value"
    /\ calls >= 2
    /\ ret.value.stepCount = calls

-----------------------------------------------------------------------------
(* Node lists without an entry-exit node *)

NoEntryNode(ns) == \A k \in 1..Len(ns) : ~IsEntry(ns[k])

\* C11: when no node is an entry-exit node (and the parameters are valid),
\* the construction succeeds, no reset() or step() call throws, and the agent
\* pool is empty, getStatistics().totalAgents = 0, whatever numAgents is.
C11_NoEntryNodeNoAgents ==
    (NoEntryNode(args.nodes) /\ ~InvalidParams(args.params)) =>
        /\ status = "ok"
        /\ ~threw
        /\ agents = <<>>
        /\ getStatistics.totalAgents = 0
        /\ op = "getStatistics" => ret.value.totalAgents = 0

\* reset() of an engine with a vendor and a bin node, asked for more than
\* one agent, has left the pool empty
C11_Witness ==
    /\ op = "reset" /\ status = "ok"
    /\ Len(nodes) = 2 /\ NoEntryNode(nodes)
    /\ params.numAgents >= 2
    /\ agents = <<>>

-----------------------------------------------------------------------------
(* Stepping an engine built from valid arguments *)

\* the obstacle grid, when given, has the rows and columns of the fields
DimensionsMatch(a) ==
    a.obstacles.given =>
        /\ Len(a.obstacles.grid) = CeilDiv(a.params.mapHeight, a.params.gridSize)
        /\ \A r \in 1..Len(a.obstacles.grid) :
              Len(a.obstacles.grid[r]) =
                  CeilDiv(a.params.mapWidth, a.params.gridSize)

ValidArgs(a) == ~InvalidParams(a.params) /\ DimensionsMatch(a)

\* C12: in an engine built from valid parameters, any node list and a
\* dimension-matching obstacle grid, no step() call throws, every cell of
\* dynamicField is a finite number >= 0 (a denominator 0 would be an
\* infinite value) and every cell of congestionMap is >= 0.
C12_StepNeverThrowsNorCorrupts ==
    ValidArgs(args) =>
        /\ status = "ok"
        /\ op = "step" => ~threw
        /\ \A r \in 1..gridRows : \A c \in 1..gridCols :
              /\ dynamicField[r][c][2] > 0
              /\ dynamicField[r][c][1] >= 0
              /\ congestionMap[r][c] >= 0

\* an agent spawned at a node outside the map has been stepped twice
C12_Witness ==
    /\ ValidArgs(args)
    /\ op = "step" /\ ~threw /\ stepCount >= 2
    /\ agents # <<>>
    /\ \E k \in 1..Len(nodes) :
          /\ IsEntry(nodes[k])
          /\ ~InGrid(gridRows, gridCols,
                     worldToGrid(params, nodes[k].x, nodes[k].y).row,
                     worldToGrid(params, nodes[k].x, nodes[k].y).col)

-----------------------------------------------------------------------------
(* Scenario C: a wall of obstacles *)

ReachedCells == {e[1] : e \in HopTable}

\* the cells that are not obstacles and that no 8-connected path through
\* non-obstacle cells joins to the cell of a node
IsolatedRegion ==
    {c \in Cells(gridRows, gridCols) : ~IsObstacle(c) /\ c \notin ReachedCells}

ScenarioC ==
    /\ ValidArgs(args) /\ status = "ok"
    /\ NodeCells # {}
    /\ \E c \in Cells(gridRows, gridCols) : IsObstacle(c)
    /\ IsolatedRegion # {}

\* C13 as stated: when a wall of obstacles cuts a region off from every
\* node, every cell of the region holds Infinity in staticField after every
\* call, and no step() moves an agent that is outside the region into it.
C13_IsolatedRegionNeverEntered ==
    [][ScenarioC =>
          /\ \A c \in IsolatedRegion : Get(staticField', c[1], c[2]) = Infinity
          /\ op' = "step" =>
                \A i \in 1..Len(agents) :
                    <<CellOf(agents[i]).row, CellOf(agents[i]).col>>
                            \notin IsolatedRegion
                    => <<CellOf(agents'[i]).row, CellOf(agents'[i]).col>>
                            \notin IsolatedRegion]_vars

-----------------------------------------------------------------------------
(* An engine without agents *)

\* C14: with decayRate 0, diffusionRate 0 and no agent spawned, every cell
\* of dynamicField is 0 after any number of step() calls.
C14_FieldStaysZeroWithoutAgents ==
    (/\ status = "ok"
     /\ params.decayRate = RZero /\ params.diffusionRate = RZero
     /\ agents = <<>>) =>
        \A r \in 1..gridRows : \A c \in 1..gridCols :
            dynamicField[r][c] = <<0, 1>>

\* two steps of an engine with a bin node, no agent, decayRate 0 and
\* diffusionRate 0
C14_Witness ==
    /\ status = "ok" /\ op = "step" /\ stepCount >= 2
    /\ params.decayRate = RZero /\ params.diffusionRate = RZero
    /\ nodes # <<>> /\ agents = <<>>
    /\ gridRows > 0 /\ gridCols > 0

-----------------------------------------------------------------------------
(* The static field as a function of the nodes and the obstacles *)

NoObstacleCell == \A c \in Cells(gridRows, gridCols) : ~IsObstacle(c)

\* C15 (Scenario A): with exactly one node, in the grid, and no obstacle,
\* staticField[r][c] = max(|r - r0|, |c - c0|) for every cell, (r0, c0) being
\* the node's cell.
C15_OneNodeChebyshev ==
    (status = "ok" /\ Len(nodes) = 1 /\ NodeCells # {} /\ NoObstacleCell) =>
        LET n == worldToGrid(params, nodes[1].x, nodes[1].y)
        IN  \A c \in Cells(gridRows, gridCols) :
                Get(staticField, c[1], c[2]) =
                    Max(Abs(c[1] - n.row), Abs(c[2] - n.col))

\* one node in the middle of the last row: the cells beside it hold 1, the
\* corners of the first row hold 2, on a diagonal of one step and a row more
C15_Witness ==
    /\ status = "ok" /\ Len(nodes) = 1 /\ NoObstacleCell
    /\ gridRows = 3 /\ gridCols = 3
    /\ worldToGrid(params, nodes[1].x, nodes[1].y) = [row |-> 2, col |-> 1]
    /\ Get(staticField, 2, 0) = 1
    /\ Get(staticField, 0, 0) = 2
    /\ Get(staticField, 0, 2) = 2

\* the hop distances of HopTable as a grid: a function of the nodes, the
\* obstacles and the grid dimensions, of nothing else
HopField ==
    LET table == HopTable
    IN  [r \in 1..gridRows |-> [c \in 1..gridCols |->
            IF \E k \in 0..(gridRows * gridCols) : <<<<r - 1, c - 1>>, k>> \in table
            THEN CHOOSE k \in 0..(gridRows * gridCols) :
                     <<<<r - 1, c - 1>>, k>> \in table
            ELSE Infinity]]

\* C16: staticField is a function of (nodes, obstacles, grid dimensions):
\* every engine built from the same inputs holds the one field these inputs
\* determine, and every call, reset() with its recomputation included,
\* leaves that same field.
C16_StaticFieldDeterministic ==
    [][status = "ok" =>
          /\ staticField = HopField
          /\ staticField' = staticField]_vars

\* reset() has recomputed the field of two nodes and an obstacle
C16_Witness ==
    /\ status = "ok" /\ op = "reset"
    /\ Len(nodes) = 2 /\ Cardinality(NodeCells) = 2
    /\ \E c \in Cells(gridRows, gridCols) : IsObstacle(c)
    /\ staticField = HopField

-----------------------------------------------------------------------------
(* Obstacle cells in the BFS *)

\* the cells first reached in k steps when the BFS starts from the node
\* cells that are not obstacles
HopTableOffObstacles ==
    LET sources == {c \in NodeCells : ~IsObstacle(c)}
    IN  Flood(sources, sources, 0)

\* C17 as stated: every obstacle cell, one that contains a node included,
\* holds Infinity in staticField, and no distance is derived from it: the
\* field is that of the BFS started from the node cells that are not
\* obstacles.
C17_ObstacleCellsStayInfinite ==
    status = "ok" =>
        /\ \A c \in Cells(gridRows, gridCols) :
              IsObstacle(c) => Get(staticField, c[1], c[2]) = Infinity
        /\ \A c \in Cells(gridRows, gridCols) :
              Get(staticField, c[1], c[2]) # Infinity =>
                  \E k \in 0..(gridRows * gridCols) :
                      /\ <<c, k>> \in HopTableOffObstacles
                      /\ Get(staticField, c[1], c[2]) = k

-----------------------------------------------------------------------------
(* The move of an agent *)

\* the agent stands on the centre of a cell of the grid that is not an
\* obstacle
OnFreeCellCentre(a) ==
    LET g == CellOf(a)
    IN  /\ InGrid(gridRows, gridCols, g.row, g.col)
        /\ ~ObstacleReadThrows(obstacleMap, g.row)
        /\ ~ObstacleAt(obstacleMap, g.row, g.col)
        /\ 2 * a.x = (2 * g.col + 1) * params.gridSize
        /\ 2 * a.y = (2 * g.row + 1) * params.gridSize

\* C18: in every state, an agent that has moved at least once stands on the
\* centre of an in-bounds cell that is not an obstacle.
C18_MovedAgentsOnFreeCells ==
    status = "ok" =>
        \A i \in 1..Len(agents) :
            agents[i].path # <<>> => OnFreeCellCentre(agents[i])

\* an agent has moved twice and stands beside an obstacle cell
C18_Witness ==
    /\ status = "ok" /\ op = "step" /\ agents # <<>>
    /\ Len(agents[1].path) >= 2
    /\ OnFreeCellCentre(agents[1])
    /\ \E c \in Cells(gridRows, gridCols) :
          /\ IsObstacle(c)
          /\ Adjacent(c, <<CellOf(agents[1]).row, CellOf(agents[1]).col>>)

Moved(a, b) ==
    \/ a.x # b.x \/ a.y # b.y
    \/ a.path # b.path
    \/ a.distanceTraveled # b.distanceTraveled

\* C19: when step() moves an agent, its new position is the centre
\* ((col + 0.5) * gridSize, (row + 0.5) * gridSize) of a Moore neighbour
\* (row, col) of the cell it was in, its path is the old path with the new
\* position appended, and distanceTraveled has grown by the Euclidean
\* distance from the old to the new position (kept as its square).
C19_MoveToNeighbourCentre ==
    [][op' = "step" =>
          \A i \in 1..Len(agents) :
              Moved(agents[i], agents'[i]) =>
                  LET a == agents[i]
                      b == agents'[i]
                      dx == b.x - a.x
                      dy == b.y - a.y
                  IN  /\ \E c \in Cells(gridRows, gridCols) :
                            /\ Adjacent(c, <<CellOf(a).row, CellOf(a).col>>)
                            /\ 2 * b.x = (2 * c[2] + 1) * params.gridSize
                            /\ 2 * b.y = (2 * c[1] + 1) * params.gridSize
                      /\ b.path = Append(a.path, [x |-> b.x, y |-> b.y])
                      /\ b.distanceTraveled =
                            Append(a.distanceTraveled, dx * dx + dy * dy)]_vars

\* an agent spawned off the centre of its cell has moved twice: first over
\* a distance of sqrt(5), to the centre of a neighbour, then from centre to
\* centre
C19_Witness ==
    /\ status = "ok" /\ op = "step" /\ ~threw /\ agents # <<>>
    /\ Len(agents[1].path) = 2
    /\ agents[1].distanceTraveled[1] = 5
    /\ agents[1].distanceTraveled[2] \in {4, 8}
    /\ agents[1].path[2] = [x |-> agents[1].x, y |-> agents[1].y]

\* every Moore neighbour of the cell g that lies in the grid is an obstacle
BoxedIn(g) ==
    \A c \in Cells(gridRows, gridCols) :
        Adjacent(c, <<g.row, g.col>>) => IsObstacle(c)

\* C20: step() leaves an agent whose cell has no in-bounds non-obstacle
\* Moore neighbour with the position, path and distanceTraveled it had; the
\* call completes, counts the visit of the agent's cell and adds the deposit
\* to it, and increments stepCount.
C20_BoxedInAgentStays ==
    [][(op' = "step" /\ ValidArgs(args)) =>
          \A i \in 1..Len(agents) :
              BoxedIn(CellOf(agents[i])) =>
                  LET g == CellOf(agents[i])
                  IN  /\ ~Moved(agents[i], agents'[i])
                      /\ ~threw'
                      /\ stepCount' = stepCount + 1
                      /\ InGrid(gridRows, gridCols, g.row, g.col) =>
                            /\ Get(congestionMap', g.row, g.col)
                                  >= Get(congestionMap, g.row, g.col) + 1
                            /\ RLeq(RAdd(Get(dynamicField, g.row, g.col), ROne),
                                    Get(seen'[i], g.row, g.col))]_vars

\* the agent in the walled-in corner has been stepped twice and has not
\* moved; its two visits are counted
C20_Witness ==
    /\ status = "ok" /\ op = "step" /\ ~threw /\ stepCount >= 2
    /\ agents # <<>>
    /\ \E c \in Cells(gridRows, gridCols) : IsObstacle(c)
    /\ InGrid(gridRows, gridCols, CellOf(agents[1]).row, CellOf(agents[1]).col)
    /\ BoxedIn(CellOf(agents[1]))
    /\ agents[1].path = <<>>
    /\ Get(congestionMap, CellOf(agents[1]).row, CellOf(agents[1]).col) >= 2

-----------------------------------------------------------------------------
(* Targets *)

\* the nodes an agent can be sent to, other than the one of id
OtherTargets(id) ==
    {k \in 1..Len(nodes) : IsTarget(nodes[k]) /\ nodes[k].id # id}

\* C21: a step() call changes an agent's targetNodeId only if the agent,
\* where the call leaves it, is less than 2 * gridSize away from the node
\* that was its target; the new target is then an entry-exit or bin node of
\* another id; with no such node the target stays.
C21_TargetChangesOnlyWhenReached ==
    [][op' = "step" =>
          \A i \in 1..Len(agents) :
              LET a == agents[i]
                  b == agents'[i]
              IN  /\ b.targetNodeId # a.targetNodeId =>
                        /\ \E k \in 1..Len(nodes) : nodes[k].id = a.targetNodeId
                        /\ params.gridSize > 0
                        /\ WithinTwoCells(b.x, b.y, NodeOfId(a.targetNodeId))
                        /\ \E k \in OtherTargets(a.targetNodeId) :
                              nodes[k].id = b.targetNodeId
                  /\ OtherTargets(a.targetNodeId) = {} =>
                        b.targetNodeId = a.targetNodeId]_vars

\* the step has just made this node the agent's target: the agent is within
\* 2 * gridSize of it and another target node exists, so had it been the
\* target before, the step would have replaced it
C21_Witness ==
    /\ status = "ok" /\ op = "step" /\ ~threw /\ agents # <<>>
    /\ params.gridSize > 0
    /\ \E k \in 1..Len(nodes) : nodes[k].id = agents[1].targetNodeId
    /\ WithinTwoCells(agents[1].x, agents[1].y, NodeOfId(agents[1].targetNodeId))
    /\ OtherTargets(agents[1].targetNodeId) # {}

TargetNodes == {k \in 1..Len(nodes) : IsTarget(nodes[k])}

\* C22: when exactly one node is an entry-exit or bin node, the
\* targetNodeId of every agent is the id of that node, in every state.
C22_SingleTargetIsKept ==
    (status = "ok" /\ Cardinality(TargetNodes) = 1) =>
        \A i \in 1..Len(agents) :
            \A k \in TargetNodes : agents[i].targetNodeId = nodes[k].id

\* after two steps the agent is within 2 * gridSize of the only target node,
\* a vendor node being the other node, and still heads for it
C22_Witness ==
    /\ status = "ok" /\ op = "step" /\ ~threw /\ stepCount >= 2
    /\ Len(nodes) = 2 /\ Cardinality(TargetNodes) = 1
    /\ agents # <<>>
    /\ Len(agents[1].path) >= 2
    /\ \A k \in TargetNodes :
          /\ agents[1].targetNodeId = nodes[k].id
          /\ WithinTwoCells(agents[1].x, agents[1].y, nodes[k])

\* C23: right after the construction and right after reset(), every agent
\* is at the position of an entry-exit node, its targetNodeId is the id of
\* an entry-exit or bin node, its path is empty and it has travelled no
\* distance.
C23_FreshAgents ==
    (status = "ok" /\ op \in {"new", "reset"}) =>
        \A i \in 1..Len(agents) :
            /\ \E k \in 1..Len(nodes) :
                  /\ IsEntry(nodes[k])
                  /\ agents[i].x = nodes[k].x
                  /\ agents[i].y = nodes[k].y
            /\ \E k \in TargetNodes : agents[i].targetNodeId = nodes[k].id
            /\ \A k \in 1..Len(nodes) :
                  nodes[k].type = "vendor" => agents[i].targetNodeId # nodes[k].id
            /\ agents[i].path = <<>>
            /\ agents[i].distanceTraveled = <<>>

\* reset() after a step has respawned an agent among a vendor node and an
\* entry-exit node
C23_Witness ==
    /\ status = "ok" /\ op = "reset" /\ seen # <<>>
    /\ agents # <<>>
    /\ \E k \in 1..Len(nodes) : nodes[k].type = "vendor"
    /\ agents[1].path = <<>>

-----------------------------------------------------------------------------
(* Decay and diffusion, stated cell by cell *)

\* the sum of the values that the field f holds in the cells of the set S
RECURSIVE SumOver(_, _)
SumOver(f, S) ==
    IF S = {} THEN RZero
    ELSE LET c == CHOOSE c \in S : TRUE
         IN  RAdd(Get(f, c[1], c[2]), SumOver(f, S \ {c}))

MooreNeighbours(c) == {d \in Cells(gridRows, gridCols) : Adjacent(c, d)}

\* f with every cell multiplied by decayRate
Decayed(f) ==
    [r \in 1..gridRows |-> [c \in 1..gridCols |->
        RMul(f[r][c], params.decayRate)]]

\* (self + diffusionRate * sum of the neighbours) /
\*     (1 + diffusionRate * number of neighbours), every value read in f
Smoothed(f) ==
    [r \in 1..gridRows |-> [c \in 1..gridCols |->
        LET nbs == MooreNeighbours(<<r - 1, c - 1>>)
        IN  RDiv(RAdd(f[r][c], RMul(params.diffusionRate, SumOver(f, nbs))),
                 RAdd(ROne, RMul(params.diffusionRate,
                                 <<Cardinality(nbs), 1>>)))]]

\* C24: a completed step() applies the decay, then the diffusion, once, to
\* the field that holds the deposits of all the agents; the field an agent's
\* selection reads holds deposits only, no value decayed or diffused by this
\* step.
C24_DecayDiffusionAfterAllAgents ==
    [][CompletedStep =>
          LET deposited == WithDeposits(dynamicField, agents, Len(agents))
          IN  /\ dynamicField' =
                    IF RLess(RZero, params.diffusionRate)
                    THEN Smoothed(Decayed(deposited))
                    ELSE Decayed(deposited)
              /\ \A i \in 1..Len(agents) :
                    seen'[i] = WithDeposits(dynamicField, agents, i)]_vars

\* the second step of two agents, with decay 1/2 and diffusion: the second
\* agent has read the whole deposit of the first
C24_Witness ==
    /\ status = "ok" /\ op = "step" /\ ~threw /\ stepCount >= 2
    /\ Len(agents) >= 2
    /\ params.decayRate = Half
    /\ RLess(RZero, params.diffusionRate)
    /\ \E r \in 1..gridRows : \E c \in 1..gridCols :
          /\ RLeq(ROne, seen[2][r][c])
          /\ RLess(seen[1][r][c], seen[2][r][c])

\* C25: with diffusionRate > 0, after a completed step() every cell holds
\* (self + diffusionRate * sum of its in-bounds Moore neighbours) /
\* (1 + diffusionRate * number of these neighbours), self and the neighbours
\* being the values after the decay of this step: no cell is computed from
\* a value the pass has already replaced.
C25_DiffusionFormula ==
    [][(CompletedStep /\ RLess(RZero, params.diffusionRate)) =>
          LET post == Decayed(WithDeposits(dynamicField, agents, Len(agents)))
          IN  \A r \in 1..gridRows : \A c \in 1..gridCols :
                  LET nbs == MooreNeighbours(<<r - 1, c - 1>>)
                  IN  RMul(dynamicField'[r][c],
                           RAdd(ROne, RMul(params.diffusionRate,
                                           <<Cardinality(nbs), 1>>)))
                      = RAdd(post[r][c],
                             RMul(params.diffusionRate, SumOver(post, nbs)))]_vars

\* after a step with diffusion the deposit has spread: the cells do not all
\* hold the same value and a cell without a visit holds a positive one
C25_Witness ==
    /\ status = "ok" /\ op = "step" /\ ~threw
    /\ RLess(RZero, params.diffusionRate)
    /\ RLess(RZero, params.decayRate)
    /\ \E r \in 1..gridRows : \E c \in 1..gridCols :
          /\ congestionMap[r][c] = 0
          /\ RLess(RZero, dynamicField[r][c])
          /\ \E q \in 1..gridRows : \E d \in 1..gridCols :
                RLess(dynamicField[r][c], dynamicField[q][d])

-----------------------------------------------------------------------------
(* What reset and step leave alone *)

\* C26: after a reset() call every cell of staticField holds the value it
\* held before the call.
C26_ResetKeepsStaticField ==
    [][op' = "reset" => staticField' = staticField]_vars

\* reset() after a step, in an engine whose static field holds finite
\* values beside Infinity
C26_Witness ==
    /\ status = "ok" /\ op = "reset" /\ seen # <<>>
    /\ \E c \in Cells(gridRows, gridCols) : Get(staticField, c[1], c[2]) = Infinity
    /\ \E c \in Cells(gridRows, gridCols) : Get(staticField, c[1], c[2]) > 0

\* C27: a step() call leaves staticField, obstacleMap, the nodes, the
\* parameters, the grid dimensions and the number and the ids of the agents
\* as they were.
C27_StepFrame ==
    [][op' = "step" =>
          /\ staticField' = staticField
          /\ obstacleMap' = obstacleMap
          /\ nodes' = nodes
          /\ params' = params
          /\ gridRows' = gridRows /\ gridCols' = gridCols
          /\ Len(agents') = Len(agents)
          /\ \A i \in 1..Len(agents) : agents'[i].id = agents[i].id]_vars

\* the second step of two agents, both in the pool under their ids, one at
\* least having moved
C27_Witness ==
    /\ status = "ok" /\ op = "step" /\ stepCount >= 2
    /\ Len(agents) >= 2
    /\ agents[1].id # agents[2].id
    /\ \E i \in 1..Len(agents) : agents[i].path # <<>>

-----------------------------------------------------------------------------
(* The arguments after the construction *)

\* C28 as stated: whatever the caller later does to the params object, the
\* nodes array or the obstacles grid it passed to the constructor, the
\* parameters, the nodes and the obstacle map that the engine's step() and
\* reset() work from stay those of the construction.
C28_ArgumentsFixedAtConstruction ==
    [][op' = "callerMutatesArgs" =>
          /\ params' = params
          /\ nodes' = nodes
          /\ obstacleMap' = obstacleMap]_vars

-----------------------------------------------------------------------------
(* The selection weights *)

\* the candidates of selectNextCell for agent a: the neighbours of its cell
\* that are not obstacles
CandidatesOf(a) ==
    LET cs == Candidates(obstacleMap,
                  getNeighbors(gridRows, gridCols, CellOf(a).row, CellOf(a).col)).cells
    IN  {cs[k] : k \in 1..Len(cs)}

\* C29 as stated: with staticWeight > 0, dynamicWeight > 0 and randomness 0,
\* among the candidates of an agent in a step(), of two with the same dynamic
\* value the one with the lower static value has the strictly larger weight,
\* of two with the same static value the one with the higher dynamic value
\* has the strictly larger weight, a candidate with static value Infinity has
\* weight 0, and the agent does not move to such a candidate while another
\* candidate has a positive weight.
C29_WeightOrderAndInfinityNeverSelected ==
    [][(/\ op' = "step" /\ ~threw'
        /\ ValidArgs(args)
        /\ params.staticWeight > 0 /\ params.dynamicWeight > 0
        /\ params.randomness = 0) =>
          \A i \in 1..Len(agents) :
              LET S(c) == Get(staticField, c.row, c.col)
                  D(c) == Get(seen'[i], c.row, c.col)
                  W(c) == Exponent(params, S(c), D(c))
                  cs   == CandidatesOf(agents[i])
                  fin  == {c \in cs : S(c) # Infinity}
              IN  /\ \A a \in fin, b \in fin :
                        /\ S(a) < S(b) /\ D(a) = D(b) => RLess(W(b), W(a))
                        /\ S(a) = S(b) /\ RLess(D(b), D(a)) => RLess(W(b), W(a))
                  /\ \A c \in cs \ fin :
                        calculateMoveProbability(params, staticField,
                                                 c.row, c.col) = "zero"
                  /\ (fin # {} /\ Moved(agents[i], agents'[i])) =>
                        [row |-> CellOf(agents'[i]).row,
                         col |-> CellOf(agents'[i]).col] \in fin]_vars

-----------------------------------------------------------------------------
(* getStatistics *)

\* the sum of the cells of congestionMap, and their number
RECURSIVE CountsOver(_)
CountsOver(S) ==
    IF S = {} THEN 0
    ELSE LET c == CHOOSE c \in S : TRUE
         IN  Get(congestionMap, c[1], c[2]) + CountsOver(S \ {c})

CongestionSum == CountsOver(Cells(gridRows, gridCols))

CellCount == gridRows * gridCols

\* C30 as stated: getStatistics() changes no engine state; totalAgents is
\* the number of agents in the pool, maxCongestion the maximum cell of
\* congestionMap, stepCount the step counter, and avgCongestion is the sum
\* of the cells of congestionMap divided by gridRows * gridCols.
C30_StatisticsExactMean ==
    [][op' = "getStatistics" =>
          /\ UNCHANGED engineVars
          /\ ret'.value.totalAgents = Len(agents)
          /\ ret'.value.stepCount = stepCount
          /\ \A c \in Cells(gridRows, gridCols) :
                Get(congestionMap, c[1], c[2]) <= ret'.value.maxCongestion
          /\ IF CellCount = 0 THEN ret'.value.avgCongestion.isNaN
             ELSE /\ ~ret'.value.avgCongestion.isNaN
                  /\ ret'.value.avgCongestion.hundredths * CellCount
                         = 100 * CongestionSum]_vars

\* C30, amended: getStatistics() changes no engine state; totalAgents is the
\* number of agents in the pool, stepCount the step counter, maxCongestion
\* the maximum cell of congestionMap (-Infinity on a grid without cells),
\* and avgCongestion is the mean of the cells of congestionMap rounded to
\* the nearest hundredth, written with two decimals ("NaN" on a grid
\* without cells).
C30_StatisticsRoundedMean ==
    [][op' = "getStatistics" =>
          /\ UNCHANGED engineVars
          /\ ret'.kind = "value"
          /\ ret'.value.totalAgents = Len(agents)
          /\ ret'.value.stepCount = stepCount
          /\ IF CellCount = 0
             THEN /\ ret'.value.maxCongestion = NegInfinity
                  /\ ret'.value.avgCongestion.isNaN
             ELSE /\ \A c \in Cells(gridRows, gridCols) :
                        Get(congestionMap, c[1], c[2]) <= ret'.value.maxCongestion
                  /\ \E c \in Cells(gridRows, gridCols) :
                        Get(congestionMap, c[1], c[2]) = ret'.value.maxCongestion
                  /\ ~ret'.value.avgCongestion.isNaN
                  /\ 2 * Abs(100 * CongestionSum
                             - ret'.value.avgCongestion.hundredths * CellCount)
                         <= CellCount]_vars

\* getStatistics() has returned on a grid whose mean congestion is not a
\* whole number of hundredths
C30_Witness ==
    /\ op = "getStatistics"
    /\ ret.kind = "value"
    /\ CellCount > 0
    /\ (100 * CongestionSum) % CellCount # 0
    /\ ret.value.totalAgents > 0

-----------------------------------------------------------------------------
(* The choice of the next cell and the target *)

\* every state the agents loop of a step() called now can leave
StepOutcomes ==
    AgentsLoop(Engine, 1,
               [agents |-> agents, dynamicField |-> dynamicField,
                congestionMap |-> congestionMap, seen |-> <<>>,
                threw |-> FALSE])

\* agents i and j stand in the same cell and have different targets
SameCellOtherTarget(i, j) ==
    /\ i # j
    /\ CellOf(agents[i]) = CellOf(agents[j])
    /\ agents[i].targetNodeId # agents[j].targetNodeId

\* C31: for two agents in the same cell with different targets, the cells a
\* step() can leave the one in are the cells it can leave the other in (the
\* same candidates, the same ones selectable), and every candidate has the
\* same weight for both whenever no agent processed between the two stands
\* on a candidate: the weight is computed from the cell's staticField and
\* dynamicField values alone.
C31_ChoiceIndependentOfTarget ==
    status = "ok" =>
        \A i \in 1..Len(agents), j \in 1..Len(agents) :
            SameCellOtherTarget(i, j) =>
                LET cs == CandidatesOf(agents[i])
                    between == {k \in 1..Len(agents) : i < k /\ k < j}
                    S(c) == Get(staticField, c.row, c.col)
                    W(o, k, c) ==
                        IF S(c) = Infinity
                        THEN <<calculateMoveProbability(params, staticField,
                                                        c.row, c.col)>>
                        ELSE Exponent(params, S(c), Get(o.seen[k], c.row, c.col))
                IN  /\ CandidatesOf(agents[j]) = cs
                    /\ {CellOf(o.agents[i]) : o \in StepOutcomes}
                           = {CellOf(o.agents[j]) : o \in StepOutcomes}
                    /\ (/\ i < j
                        /\ \A k \in between :
                              [row |-> CellOf(agents[k]).row,
                               col |-> CellOf(agents[k]).col] \notin cs) =>
                          \A o \in StepOutcomes : ~o.threw =>
                              \A c \in cs : W(o, i, c) = W(o, j, c)

\* two agents with different targets stand in the same cell, which has a
\* candidate neighbour, after a step
C31_Witness ==
    /\ status = "ok"
    /\ op = "step"
    /\ \E i \in 1..Len(agents), j \in 1..Len(agents) :
          /\ SameCellOtherTarget(i, j)
          /\ CandidatesOf(agents[i]) # {}
          /\ \E o \in StepOutcomes : CellOf(o.agents[i]) # CellOf(agents[i])

-----------------------------------------------------------------------------
(* The visits counted in congestionMap *)

\* node n lies inside the map: 0 <= x < cols * gridSize, 0 <= y < rows * gridSize
InsideMap(n) ==
    /\ 0 <= n.x /\ n.x < gridCols * params.gridSize
    /\ 0 <= n.y /\ n.y < gridRows * params.gridSize

EntryNodesInside ==
    \A k \in 1..Len(nodes) : IsEntry(nodes[k]) => InsideMap(nodes[k])

\* the number of agents that stand in cell c
AgentsIn(c) ==
    Cardinality({i \in 1..Len(agents) :
                    CellOf(agents[i]).row = c[1] /\ CellOf(agents[i]).col = c[2]})

\* C32 as stated: in every state the sum of the cells of congestionMap is at
\* most stepCount * (number of agents), and equal to it when every
\* entry-exit node lies inside the map; a step() adds to every cell one
\* visit for each agent that stood in it before the step.
C32_VisitsCountAgentSteps ==
    /\ [](status = "ok" =>
            /\ CongestionSum <= stepCount * Len(agents)
            /\ EntryNodesInside => CongestionSum = stepCount * Len(agents))
    /\ [][op' = "step" =>
            \A c \in Cells(gridRows, gridCols) :
                Get(congestionMap', c[1], c[2])
                    = Get(congestionMap, c[1], c[2]) + AgentsIn(c)]_vars

-----------------------------------------------------------------------------
(* The size of the agent pool *)

HasEntryNode == \E k \in 1..Len(nodes) : IsEntry(nodes[k])

DistinctIds ==
    \A i \in 1..Len(agents), j \in 1..Len(agents) :
        i # j => agents[i].id # agents[j].id

-----------------------------------------------------------------------------
(* The agents' paths *)

\* C34: an agent's path has at most stepCount elements and, when it is not
\* empty, ends with the agent's position; a step() leaves the path as it was
\* or appends one position, the agent's new one, and leaves distanceTraveled
\* as it was or adds one length >= 0 to it (between resets the path only
\* grows and distanceTraveled never decreases).
C34_PathGrowsByAppending ==
    /\ [](status = "ok" =>
            \A i \in 1..Len(agents) :
                /\ Len(agents[i].path) <= stepCount
                /\ agents[i].path # <<>> =>
                      agents[i].path[Len(agents[i].path)]
                          = [x |-> agents[i].x, y |-> agents[i].y])
    /\ [][op' = "step" =>
            /\ Len(agents') = Len(agents)
            /\ \A i \in 1..Len(agents) :
                  \/ /\ agents'[i].path = agents[i].path
                     /\ agents'[i].distanceTraveled = agents[i].distanceTraveled
                     /\ agents'[i].x = agents[i].x /\ agents'[i].y = agents[i].y
                  \/ /\ agents'[i].path
                           = Append(agents[i].path,
                                    [x |-> agents'[i].x, y |-> agents'[i].y])
                     /\ LET d == agents'[i].distanceTraveled
                        IN  /\ d # <<>>
                            /\ d = Append(agents[i].distanceTraveled, d[Len(d)])
                            /\ d[Len(d)] >= 0]_vars

\* an agent has moved in each of two steps
C34_Witness ==
    /\ status = "ok"
    /\ op = "step"
    /\ stepCount = 2
    /\ \E i \in 1..Len(agents) : Len(agents[i].path) = 2

-----------------------------------------------------------------------------
(* decayRate 0 *)

\* C35 as stated: with decayRate 0, every cell of dynamicField is 0 after
\* every step() call, whatever the number of agents and diffusionRate; the
\* deposits of a step are read by the agents processed later in that step
\* only: the field the selection of agent i reads holds the deposits of the
\* agents 1 .. i of this step and nothing else.
C35_ZeroDecayClearsField ==
    /\ []((status = "ok" /\ params.decayRate = RZero /\ op = "step") =>
            \A c \in Cells(gridRows, gridCols) :
                Get(dynamicField, c[1], c[2]) = RZero)
    /\ [][(op' = "step" /\ params.decayRate = RZero) =>
            \A i \in 1..Len(seen') :
                seen'[i] = WithDeposits(Grid(gridRows, gridCols, RZero),
                                        agents, i)]_vars

-----------------------------------------------------------------------------
(* The reassignment of an agent that has not moved *)

\* the agent, where the step leaves it, is less than 2 * gridSize away from
\* the node that was its target, and another entry-exit or bin node exists
TargetReached(a, b) ==
    /\ \E k \in 1..Len(nodes) : nodes[k].id = a.targetNodeId
    /\ params.gridSize > 0
    /\ WithinTwoCells(b.x, b.y, NodeOfId(a.targetNodeId))
    /\ OtherTargets(a.targetNodeId) # {}

\* C36 as stated: a step() evaluates the reassignment only for an agent that
\* has moved in it; an agent that has not moved keeps its targetNodeId, even
\* within 2 * gridSize of its target and with other entry-exit or bin nodes.
C36_UnmovedAgentKeepsTarget ==
    [][op' = "step" =>
          \A i \in 1..Len(agents) :
              ~Moved(agents[i], agents'[i]) =>
                  agents'[i].targetNodeId = agents[i].targetNodeId]_vars

\* the agent of index i has passed its selectNextCell call in the step
Returned(i) == i <= Len(seen') /\ (threw' => i < Len(seen'))

\* C36, amended: a step() evaluates the reassignment for every agent whose
\* selectNextCell call returns, after its move if it has moved and where it
\* stands if it has not: an agent less than 2 * gridSize away from its
\* target gets another entry-exit or bin node as its target when there is
\* one, moved or not.
C36_ReassignmentWhetherMovedOrNot ==
    [][op' = "step" =>
          \A i \in 1..Len(agents) :
              (Returned(i) /\ TargetReached(agents[i], agents'[i])) =>
                  \E k \in OtherTargets(agents[i].targetNodeId) :
                      agents'[i].targetNodeId = nodes[k].id]_vars

\* after a step an agent that has never moved stands within 2 * gridSize of
\* an entry-exit node that is not its target
C36_Witness ==
    /\ status = "ok" /\ op = "step" /\ ~threw
    /\ \E i \in 1..Len(agents) :
          /\ agents[i].path = <<>>
          /\ \E k \in OtherTargets(agents[i].targetNodeId) :
                WithinTwoCells(agents[i].x, agents[i].y, nodes[k])

-----------------------------------------------------------------------------
(* Statistics of an engine without agents *)

\* C37 as stated: in every state, also with no agent, getStatistics()
\* returns an avgDistanceTraveled that denotes a finite number, the mean of
\* distanceTraveled over the agents (not NaN: 0 with no agent), and a finite
\* maxCongestion.
C37_StatisticsAreFinite ==
    (status = "ok" /\ op = "getStatistics") =>
        /\ ~ret.value.avgDistanceTraveled.isNaN
        /\ Len(ret.value.avgDistanceTraveled.distances) = Len(agents)
        /\ ret.value.maxCongestion # NegInfinity
        /\ ret.value.maxCongestion # Infinity

-----------------------------------------------------------------------------
(* MapEditor: the drawing and its edit history                             *)
(*                                                                         *)
(* One action is one event handler.  A handler reads the state of the      *)
(* render it was created in (editor) and its set... calls take effect      *)
(* together when it returns; of two calls of the same setter the later     *)
(* one wins.  The keyboard shortcuts call the same functions as the        *)
(* buttons.                                                                *)

\* canvas positions of the clicks and of the mouse moves
Points == {[x |-> 1, y |-> 1], [x |-> 2, y |-> 1]}

\* values typed into the capacity field
Capacities == {50, 80}

\* the tools that place a node; "entry-exit" places one as these two do
NodeTools == {"vendor", "bin"}

\* saveToHistory(newNodes, newPaths) called in the render of state e: the
\* values given to setHistory and setHistoryIndex
saveToHistory(e, newNodes, newPaths) ==
    LET newHistory == Append(SubSeq(e.history, 1, e.historyIndex + 1),
                             [nodes |-> newNodes, paths |-> newPaths])
    IN  [history |-> newHistory, historyIndex |-> Len(newHistory) - 1]

\* the drawing may still be changed within the bounds of the model
CanEdit == editor.now < MaxEdits

EditorStep(e) ==
    /\ editor' = e
    /\ UNCHANGED <<simVars, chat>>

\* the toolbar buttons: setTool(t), and setDrawingPath([]) for the walkway
SetTool ==
    \E t \in {"select", "walkway"} \cup NodeTools :
        /\ t # editor.tool
        /\ EditorStep([editor EXCEPT !.tool = t,
                                     !.drawingPath =
                                         IF t = "walkway" THEN <<>> ELSE @])

handleCanvasClick ==
    \E pt \in Points :
        \/ /\ editor.tool \in NodeTools
           /\ CanEdit
           /\ LET isType(n) == n.type = editor.tool
                  newNode == [id |-> <<editor.tool, editor.now>>,
                              x |-> pt.x, y |-> pt.y, type |-> editor.tool,
                              label |-> Len(SelectSeq(editor.nodes, isType)) + 1]
                  newNodes == Append(editor.nodes, newNode)
                  h == saveToHistory(editor, newNodes, editor.paths)
              IN  EditorStep([editor EXCEPT !.nodes = newNodes,
                                            !.history = h.history,
                                            !.historyIndex = h.historyIndex,
                                            !.now = @ + 1])
        \/ /\ editor.tool = "walkway"
           /\ Len(editor.drawingPath) < 2
           /\ EditorStep([editor EXCEPT !.drawingPath = Append(@, pt)])

finishPath ==
    /\ editor.drawingPath # <<>>
    /\ IF Len(editor.drawingPath) >= 2
       THEN /\ CanEdit
            /\ LET newPath == [id |-> <<"path", editor.now>>,
                               points |-> editor.drawingPath,
                               label |-> Len(editor.paths) + 1,
                               capacity |-> 50]
                   newPaths == Append(editor.paths, newPath)
                   h == saveToHistory(editor, editor.nodes, newPaths)
               IN  EditorStep([editor EXCEPT !.paths = newPaths,
                                             !.history = h.history,
                                             !.historyIndex = h.historyIndex,
                                             !.drawingPath = <<>>,
                                             !.now = @ + 1])
       ELSE EditorStep([editor EXCEPT !.drawingPath = <<>>])

handleNodeMouseDown ==
    \E k \in 1..Len(editor.nodes) :
        /\ editor.tool = "select"
        /\ editor.draggingNode = Null
        /\ EditorStep([editor EXCEPT !.draggingNode = editor.nodes[k].id,
                                     !.selectedNode = editor.nodes[k].id])

handleMouseMove ==
    \E pt \in Points :
        /\ editor.draggingNode # Null
        /\ CanEdit
        /\ LET moved(n) == IF n.id = editor.draggingNode
                           THEN [n EXCEPT !.x = pt.x, !.y = pt.y] ELSE n
               newNodes == [k \in 1..Len(editor.nodes) |-> moved(editor.nodes[k])]
           IN  /\ newNodes # editor.nodes
               /\ EditorStep([editor EXCEPT !.nodes = newNodes,
                                            !.now = @ + 1])

handleMouseUp ==
    /\ editor.draggingNode # Null
    /\ EditorStep([editor EXCEPT !.draggingNode = Null])

\* onClick of a path: setSelectedPath(path.id); setSelectedNode(null)
PathClick ==
    \E k \in 1..Len(editor.paths) :
        /\ editor.tool = "select"
        /\ editor.selectedPath # editor.paths[k].id \/ editor.selectedNode # Null
        /\ EditorStep([editor EXCEPT !.selectedPath = editor.paths[k].id,
                                     !.selectedNode = Null])

\* Both branches run in the same render: the second saveToHistory starts
\* again from the history, historyIndex and nodes of that render, and its
\* setHistory and setHistoryIndex replace those of the first.
deleteSelected ==
    /\ editor.selectedNode # Null \/ editor.selectedPath # Null
    /\ CanEdit
    /\ LET keepNode(n) == n.id # editor.selectedNode
           keepPath(q) == q.id # editor.selectedPath
           newNodes == SelectSeq(editor.nodes, keepNode)
           newPaths == SelectSeq(editor.paths, keepPath)
           h == IF editor.selectedPath # Null
                THEN saveToHistory(editor, editor.nodes, newPaths)
                ELSE saveToHistory(editor, newNodes, editor.paths)
       IN  EditorStep([editor EXCEPT
               !.nodes = IF editor.selectedNode # Null THEN newNodes ELSE @,
               !.paths = IF editor.selectedPath # Null THEN newPaths ELSE @,
               !.history = h.history,
               !.historyIndex = h.historyIndex,
               !.selectedNode = Null,
               !.selectedPath = Null,
               !.now = @ + 1])

\* onChange of the capacity field of the selected path
updatePathCapacity ==
    \E capacity \in Capacities :
        /\ editor.selectedPath # Null
        /\ CanEdit
        /\ LET set(q) == IF q.id = editor.selectedPath
                         THEN [q EXCEPT !.capacity = capacity] ELSE q
               newPaths == [k \in 1..Len(editor.paths) |-> set(editor.paths[k])]
               h == saveToHistory(editor, editor.nodes, newPaths)
           IN  /\ newPaths # editor.paths
               /\ EditorStep([editor EXCEPT !.paths = newPaths,
                                            !.history = h.history,
                                            !.historyIndex = h.historyIndex,
                                            !.now = @ + 1])

\* the state after undo() called in the render of state e
undone(e) ==
    IF e.historyIndex > 0
    THEN LET newIndex == e.historyIndex - 1
         IN  [e EXCEPT !.historyIndex = newIndex,
                       !.nodes = e.history[newIndex + 1].nodes,
                       !.paths = e.history[newIndex + 1].paths]
    ELSE e

\* the state after redo() called in the render of state e
redone(e) ==
    IF e.historyIndex < Len(e.history) - 1
    THEN LET newIndex == e.historyIndex + 1
         IN  [e EXCEPT !.historyIndex = newIndex,
                       !.nodes = e.history[newIndex + 1].nodes,
                       !.paths = e.history[newIndex + 1].paths]
    ELSE e

\* the undo button is disabled at historyIndex 0
undo ==
    /\ editor.historyIndex > 0
    /\ EditorStep(undone(editor))

\* the redo button is disabled at the last entry
redo ==
    /\ editor.historyIndex < Len(editor.history) - 1
    /\ EditorStep(redone(editor))

\* the editor is used next to an engine that is left alone
InitEditor ==
    InitFrom({A(P(2, 5, 4, 0, 1, 1, Half, RZero), <<>>, NoObstacles)})

NextEditor ==
    \/ SetTool \/ handleCanvasClick \/ finishPath
    \/ handleNodeMouseDown \/ handleMouseMove \/ handleMouseUp
    \/ PathClick \/ deleteSelected \/ updatePathCapacity
    \/ undo \/ redo

SpecEditor == InitEditor /\ [][NextEditor]_vars

\* what the canvas shows
Displayed(e) == [nodes |-> e.nodes, paths |-> e.paths]

\* C38: after any sequence of add-node, finish-walkway, delete,
\* capacity-update, node-drag, undo and redo operations the history index
\* lies within the history and the entry it names is the drawing on
\* display, also after a drag and after a delete with a node and a path
\* both selected.
C38_HistoryEntryIsDisplayed ==
    /\ 0 <= editor.historyIndex
    /\ editor.historyIndex <= Len(editor.history) - 1
    /\ editor.history[editor.historyIndex + 1] = Displayed(editor)

\* a step that records an edit
Saves == editor'.history # editor.history

\* C39: undo immediately followed by redo shows again the nodes and paths
\* that were on display before the undo, and an edit that is saved cuts the
\* history to historyIndex + 1 entries before pushing the new one, so that
\* redo does nothing after it.
C39_UndoRedoRestoresDisplay ==
    /\ [](editor.historyIndex > 0
            => Displayed(redone(undone(editor))) = Displayed(editor))
    /\ [][Saves =>
            /\ SubSeq(editor'.history, 1, Len(editor'.history) - 1)
                 = SubSeq(editor.history, 1, editor.historyIndex + 1)
            /\ editor'.historyIndex = Len(editor'.history) - 1
            /\ redone(editor') = editor']_vars

-----------------------------------------------------------------------------
(* MapEditor: the assistant chat                                           *)
(*                                                                         *)
(* A string is the sequence of its characters.  A report is the number of  *)
(* the drawing it was computed from, wrapped as <<"report", r>>; the text  *)
(* returned by generateAssistantResponse(question, report) is kept as the  *)
(* call <<"response", question, report>>.  assistantTimer holds what the   *)
(* callback of the running timer closes over, pendingAssistant the pair    *)
(* of the ref.  Updates of chatMessages are functional and are applied in  *)
(* the order of the calls.                                                 *)

Chars == {" ", "a"}

RECURSIVE StringsUpTo(_)
StringsUpTo(n) ==
    IF n = 0 THEN {<<>>}
    ELSE StringsUpTo(n - 1)
            \cup {Append(w, c) : w \in StringsUpTo(n - 1), c \in Chars}

\* what may stand in the input field
Inputs == StringsUpTo(MaxInput)

Reports == {<<"report", 1>>, <<"report", 2>>}

\* String.prototype.trim
RECURSIVE trim(_)
trim(w) ==
    IF w = <<>> THEN w
    ELSE IF Head(w) = " " THEN trim(Tail(w))
    ELSE IF w[Len(w)] = " " THEN trim(SubSeq(w, 1, Len(w) - 1))
    ELSE w

generateAssistantResponse(question, result) == <<"response", question, result>>

summarizeReportIntro(result) == <<"intro", result>>

Message(role, content) == [role |-> role, content |-> content]

UserMessages(c) ==
    Len(SelectSeq(c.chatMessages, LAMBDA msg : msg.role = "user"))

ChatStep(c) ==
    /\ chat' = c
    /\ UNCHANGED <<simVars, editor>>

\* onChange of the input field
SetChatInput ==
    \E value \in Inputs :
        /\ chat.report # Null
        /\ value # chat.chatInput
        /\ ChatStep([chat EXCEPT !.chatInput = value])

\* handleGenerateReport, of a button that is disabled while
\* isGeneratingReport: the part that follows the computation of result
handleGenerateReport ==
    \E result \in Reports :
        /\ ~chat.isGeneratingReport
        /\ ChatStep([chat EXCEPT
            !.report = result,
            !.isGeneratingReport = FALSE,
            !.assistantTimer = Null,
            !.pendingAssistant = Null,
            !.isAssistantThinking = FALSE,
            !.chatMessages = <<Message("assistant", summarizeReportIntro(result))>>,
            !.chatInput = <<>>])

\* a variant that drops the pending reply instead of appending it
submitChatDropPending ==
    LET trimmed == trim(chat.chatInput)
    IN  /\ chat.report # Null
        /\ trimmed # <<>>
        /\ UserMessages(chat) < MaxQuestions
        /\ ChatStep([chat EXCEPT
               !.chatMessages = Append(@, Message("user", trimmed)),
               !.chatInput = <<>>,
               !.isAssistantThinking = TRUE,
               !.pendingAssistant = <<trimmed, chat.report>>,
               !.assistantTimer = <<"timer", trimmed, chat.report>>])

\* submitChat, from the form's submit and from Enter without Shift
submitChat ==
    LET currentReport == chat.report
        trimmed == trim(chat.chatInput)
        flush == chat.assistantTimer # Null /\ chat.pendingAssistant # Null
        pending == chat.pendingAssistant
        immediateResponse ==
            Message("assistant",
                    generateAssistantResponse(pending[1], pending[2]))
        userMessage == Message("user", trimmed)
    IN  /\ chat.report # Null
        /\ trimmed # <<>>
        /\ UserMessages(chat) < MaxQuestions
        /\ ChatStep([chat EXCEPT
               !.chatMessages =
                   IF flush THEN Append(Append(@, immediateResponse), userMessage)
                   ELSE Append(@, userMessage),
               !.chatInput = <<>>,
               !.isAssistantThinking = TRUE,
               !.pendingAssistant = <<trimmed, currentReport>>,
               !.assistantTimer = <<"timer", trimmed, currentReport>>])

\* the callback given to window.setTimeout, run when the timer was not cleared
TimerFires ==
    LET pending == chat.pendingAssistant
        timer == chat.assistantTimer
        assistantMessage ==
            Message("assistant",
                    IF pending # Null
                    THEN generateAssistantResponse(pending[1], pending[2])
                    ELSE generateAssistantResponse(timer[2], timer[3]))
    IN  /\ chat.assistantTimer # Null
        /\ ChatStep([chat EXCEPT
               !.chatMessages = Append(@, assistantMessage),
               !.isAssistantThinking = FALSE,
               !.assistantTimer = Null,
               !.pendingAssistant = Null])

InitChat == InitEditor

NextChat ==
    \/ handleGenerateReport \/ SetChatInput \/ submitChat \/ TimerFires

SpecChat == InitChat /\ [][NextChat]_vars

\* a timer that is not cleared runs out
SpecChatFair == SpecChat /\ WF_vars(TimerFires)

\* the reply that answers the user message msg in the chat c
ReplyTo(c, msg) ==
    Message("assistant", generateAssistantResponse(msg.content, c.report))

\* a step in which a question is submitted
Submits == UserMessages(chat') = UserMessages(chat) + 1

\* C40: while a report exists, every submitted question that is not blank
\* gets exactly one reply, generated for that question, and the reply
\* stands before the next user message: the chat is the introduction
\* followed by question, reply, question, reply, ..., a last question
\* without reply being the pending one of the running timer.  A submit
\* made while a reply is pending appends that reply first, then the new
\* question, and starts a new timer; a new report leaves no pending reply;
\* a pending reply is appended when nothing cancels its timer.
C40_EveryQuestionOneReplyInOrder ==
    /\ [](chat.report # Null =>
            LET msgs == chat.chatMessages
                n == Len(msgs)
            IN  /\ n >= 1
                /\ msgs[1] = Message("assistant", summarizeReportIntro(chat.report))
                /\ \A k \in 2..n :
                     IF msgs[k].role = "user"
                     THEN /\ msgs[k - 1].role = "assistant"
                          /\ msgs[k].content # <<>>
                          /\ IF k = n
                             THEN /\ chat.assistantTimer # Null
                                  /\ chat.pendingAssistant
                                       = <<msgs[k].content, chat.report>>
                             ELSE msgs[k + 1] = ReplyTo(chat, msgs[k])
                     ELSE msgs[k - 1].role = "user"
                /\ msgs[n].role = "assistant"
                     => chat.assistantTimer = Null /\ chat.pendingAssistant = Null)
    /\ [][Submits =>
            LET question == Message("user", trim(chat.chatInput))
                before == chat.chatMessages
                last == before[Len(before)]
            IN  /\ chat'.chatMessages =
                      IF last.role = "user"
                      THEN Append(Append(before, ReplyTo(chat, last)), question)
                      ELSE Append(before, question)
                /\ chat'.assistantTimer # Null
                /\ chat'.report = chat.report]_vars
    /\ \A k \in 2..(2 * MaxQuestions) :
           (Len(chat.chatMessages) = k /\ chat.chatMessages[k].role = "user")
             ~> (Len(chat.chatMessages) # k)

\* a second question was submitted while the first one had its reply, and
\* is itself waiting for its timer
C40_Witness ==
    /\ chat.report # Null
    /\ Len(chat.chatMessages) = 4
    /\ chat.chatMessages[2].role = "user"
    /\ chat.chatMessages[3] = ReplyTo(chat, chat.chatMessages[2])
    /\ chat.chatMessages[4].role = "user"
    /\ chat.chatMessages[4].content # chat.chatMessages[2].content
    /\ chat.pendingAssistant # Null
    /\ chat.isAssistantThinking

=============================================================================
